---- MODULE Spec2Model ----
(***************************************************************************)
(* A model of hwarang, the HWP text extractor.                             *)
(*                                                                         *)
(* Each parser of the binary pipeline is a pure function over a byte       *)
(* buffer.  It is modelled as an operator that computes what the Rust code *)
(* computes, and as one action that applies it to an input drawn by the    *)
(* initial state of the component's specification.                         *)
(*                                                                         *)
(* Conventions.  A byte is a number in 0..255.  A buffer is a sequence of  *)
(* bytes; the code's 0-based data[i] is At(data, i).  A u32 that may       *)
(* exceed 2^31 - 1 is kept as its two 16-bit halves [lo, hi], since the    *)
(* model checker's integers are 32-bit.  usize is taken to be 64 bits      *)
(* wide, so pos + size never wraps.                                        *)
(***************************************************************************)
EXTENDS Integers, Sequences, FiniteSets, TLC

VARIABLES
    rec_data,       \* read_records: the argument `data`
    rec_result,     \* read_records: the returned Result<Vec<Record>>
    pt_data,        \* extract_text_segments, extract_text: the argument `data`
    pt_segments,    \* extract_text_segments: the returned Vec<TextSegment>
    pt_text,        \* extract_text: the returned (String, Vec<u16>)
    deob_orig,      \* deobfuscate: the 256 bytes before the first call
    deob_data,      \* deobfuscate: the buffer `data`, modified in place
    deob_calls,     \* deobfuscate: how often it was applied to deob_data
    dec_data,       \* decrypt_distribution_stream: the argument `data`
    dec_result,     \* decrypt_distribution_stream: the returned Result<Vec<u8>>
    hdr_bytes,      \* FileHeader::from_reader: the bytes `reader` yields
    hdr_result,     \* FileHeader::from_reader: the returned Result<FileHeader>
    sec_records,    \* extract_section_text: the argument `records`
    sec_text,       \* extract_section_text: the String `text` it appended to
    eq_data,        \* extract_eqedit_script: the argument `data`
    eq_script,      \* extract_eqedit_script: the returned Option<String>
    tbl_args,       \* format_markdown_table: the arguments cells, rows, cols
    tbl_result,     \* format_markdown_table: the returned String
    hwp_comp,       \* extract_text_from_hwp: the streams of the container `comp`
    hwp_pc,         \* extract_text_from_hwp: the statement it is at
    hwp_opened,     \* extract_text_from_hwp: the paths given to comp.open_stream
    hwp_header,     \* extract_text_from_hwp: `header`
    hwp_doc_info,   \* extract_text_from_hwp: `doc_info`
    hwp_i,          \* extract_text_from_hwp: the section index of phase 1
    hwp_section_raw,    \* extract_text_from_hwp: `section_raw`
    hwp_workers,    \* extract_text_from_hwp: the parallel map, item by item
    hwp_section_texts,  \* extract_text_from_hwp: `section_texts`
    hwp_result,     \* extract_text_from_hwp: the returned Result<String>
    cli_args,       \* main: the parsed `args` and what the input path is
    cli_outcomes,   \* main: per file of the batch, how its extraction and write end
    cli_pc,         \* main: the statement it is at
    cli_files,      \* main: `files`, the batch handed to process_batch
    cli_todo,       \* process_batch: the items par_iter has not yet run
    cli_success,    \* process_batch: the counter `success`
    cli_failed,     \* process_batch: the counter `failed`
    cli_stderr,     \* main: the kinds of the lines written with eprintln!
    cli_exit,       \* main: the exit status of the process
    xml_events,     \* extract_section_xml: the events the reader yields
    xml_pos,        \* extract_section_xml: how many events the loop has read
    xml_st,         \* extract_section_xml: its local flags and table buffers
    xml_text,       \* extract_section_xml: the String `text` it appends to
    xml_result      \* extract_section_xml: the returned Result<()>

rec_vars == <<rec_data, rec_result>>
pt_vars == <<pt_data, pt_segments, pt_text>>
deob_vars == <<deob_orig, deob_data, deob_calls>>
dec_vars == <<dec_data, dec_result>>
hdr_vars == <<hdr_bytes, hdr_result>>
sec_vars == <<sec_records, sec_text>>
eq_vars == <<eq_data, eq_script>>
tbl_vars == <<tbl_args, tbl_result>>
hwp_vars == <<hwp_comp, hwp_pc, hwp_opened, hwp_header, hwp_doc_info, hwp_i,
              hwp_section_raw, hwp_workers, hwp_section_texts, hwp_result>>

cli_vars == <<cli_args, cli_outcomes, cli_pc, cli_files, cli_todo, cli_success,
              cli_failed, cli_stderr, cli_exit>>
xml_vars == <<xml_events, xml_pos, xml_st, xml_text, xml_result>>

vars == <<rec_vars, pt_vars, deob_vars, dec_vars, hdr_vars,
          sec_vars, eq_vars, tbl_vars, hwp_vars, cli_vars, xml_vars>>

\* ------------------------------------------------------------------------
\* Helpers shared by the byte-level parsers
\* ------------------------------------------------------------------------

\* data[i] for the code's 0-based index i.
At(data, i) == data[i + 1]

\* data[from..to] (0-based, `to` exclusive).
Slice(data, from, to) == SubSeq(data, from + 1, to)

\* A call that has not returned yet, and a component that is not exercised
\* by the specification at hand.
NotCalled == [kind |-> "NotCalled"]
Idle == [kind |-> "Idle"]

\* The value an infallible call returned.
Returned(v) == [kind |-> "Returned", value |-> v]

\* A specification exercises one component; the others rest.
RecIdle == rec_data = <<>> /\ rec_result = Idle
PtIdle == pt_data = <<>> /\ pt_segments = Idle /\ pt_text = Idle
DeobIdle == deob_orig = <<>> /\ deob_data = <<>> /\ deob_calls = 0
DecIdle == dec_data = <<>> /\ dec_result = Idle
HdrIdle == hdr_bytes = <<>> /\ hdr_result = Idle
SecIdle == sec_records = <<>> /\ sec_text = Idle
EqIdle == eq_data = <<>> /\ eq_script = Idle
TblIdle == tbl_args = Idle /\ tbl_result = Idle
HwpIdle ==
    /\ hwp_comp = <<>> /\ hwp_pc = "Idle" /\ hwp_opened = <<>>
    /\ hwp_header = Idle /\ hwp_doc_info = Idle /\ hwp_i = 0
    /\ hwp_section_raw = <<>> /\ hwp_workers = <<>> /\ hwp_section_texts = <<>>
    /\ hwp_result = Idle
CliIdle ==
    /\ cli_args = Idle /\ cli_outcomes = <<>> /\ cli_pc = "Idle" /\ cli_files = <<>>
    /\ cli_todo = {} /\ cli_success = 0 /\ cli_failed = 0 /\ cli_stderr = <<>>
    /\ cli_exit = Idle
XmlIdle ==
    /\ xml_events = <<>> /\ xml_pos = 0 /\ xml_st = Idle /\ xml_text = <<>>
    /\ xml_result = Idle

RECURSIVE FlattenSeq(_)
FlattenSeq(ss) == IF ss = <<>> THEN <<>> ELSE Head(ss) \o FlattenSeq(Tail(ss))

\* All sequences over S of length 0..n.
SeqsUpTo(S, n) == UNION {[1..k -> S] : k \in 0..n}

\* The buffers made of at most n of the given pieces.
BuffersOf(pieces, n) == {FlattenSeq(ps) : ps \in SeqsUpTo(pieces, n)}

\* ------------------------------------------------------------------------
\* hwp/record.rs
\* ------------------------------------------------------------------------

HWPTAG_BEGIN == 16
HWPTAG_DOCUMENT_PROPERTIES == HWPTAG_BEGIN
HWPTAG_PARA_HEADER == HWPTAG_BEGIN + 50
HWPTAG_PARA_TEXT == HWPTAG_BEGIN + 51

\* u32::from_le_bytes, as 16-bit halves.
u32_from_le_bytes(b0, b1, b2, b3) == [lo |-> b0 + 256 * b1, hi |-> b2 + 256 * b3]

\* (value & 0x3FF)
HeaderTag(value) == value.lo % 1024

\* ((value >> 10) & 0x3FF)
HeaderLevel(value) == ((value.lo \div 1024) + 64 * value.hi) % 1024

\* ((value >> 20) & 0xFFF)
HeaderSize(value) == (value.hi \div 16) % 4096

\* The 12-bit size field that announces an extended size word.
EXTENDED_SIZE == 4095

\* body_end > len, for body_end = pos + size as usize.  Every buffer of the
\* model is shorter than 2^16 bytes, so a size with a non-zero high half
\* always exceeds it.
BodyOverflowsMutant(pos, size, len) == size.hi > 0 \/ pos + size.lo >= len
BodyOverflows(pos, size, len) == size.hi > 0 \/ pos + size.lo > len

Ok(records) == [kind |-> "Ok", records |-> records]
Err(kind) == [kind |-> kind, records |-> <<>>]

\* The loop condition of read_records.
MoreRecordsMutant(pos, len) == pos + 8 <= len
MoreRecords(pos, len) == pos + 4 <= len

\* What read_records gives back when an error ends the loop: the Err value
\* alone, the vector of records built so far is dropped.
FailStopsMutant(kind, records) == Ok(records)
Fail(kind, records) == Err(kind)

\* The size of a record and the position of its body, from the header word
\* at pos - 4: [err, size, pos].
ReadSizeMutant(data, pos, value) ==
    LET field == HeaderSize(value) IN
    IF field = EXTENDED_SIZE
    THEN IF pos + 4 > Len(data)
         THEN [err |-> TRUE, size |-> [lo |-> field, hi |-> 0], pos |-> pos]
         ELSE [err |-> FALSE,
               size |-> u32_from_le_bytes(At(data, pos), At(data, pos + 1),
                                          At(data, pos + 2), At(data, pos + 3)),
               pos |-> pos]
    ELSE [err |-> FALSE, size |-> [lo |-> field, hi |-> 0], pos |-> pos]
ReadSize(data, pos, value) ==
    LET field == HeaderSize(value) IN
    IF field = EXTENDED_SIZE
    THEN IF pos + 4 > Len(data)
         THEN [err |-> TRUE, size |-> [lo |-> field, hi |-> 0], pos |-> pos]
         ELSE [err |-> FALSE,
               size |-> u32_from_le_bytes(At(data, pos), At(data, pos + 1),
                                          At(data, pos + 2), At(data, pos + 3)),
               pos |-> pos + 4]
    ELSE [err |-> FALSE, size |-> [lo |-> field, hi |-> 0], pos |-> pos]

\* The while loop of read_records, from position pos with `records` pushed.
RECURSIVE ReadRecordsFrom(_, _, _)
ReadRecordsFrom(data, pos, records) ==
    LET len == Len(data) IN
    IF ~MoreRecords(pos, len) THEN Ok(records)
    ELSE
        LET value == u32_from_le_bytes(At(data, pos), At(data, pos + 1),
                                       At(data, pos + 2), At(data, pos + 3))
            tag_id == HeaderTag(value)
            level == HeaderLevel(value)
            sz == ReadSize(data, pos + 4, value)
        IN
        IF sz.err THEN Fail("InvalidRecordHeader", records)
        ELSE IF BodyOverflows(sz.pos, sz.size, len) THEN Fail("Parse", records)
        ELSE
            LET body_end == sz.pos + sz.size.lo
                body == Slice(data, sz.pos, body_end)
            IN ReadRecordsFrom(data, body_end,
                   Append(records, [tag_id |-> tag_id, level |-> level,
                                    size |-> sz.size.lo, data |-> body]))

read_records(data) == ReadRecordsFrom(data, 0, <<>>)

\* --- inputs of read_records ---------------------------------------------

\* The four bytes of a packed record header.
PackHeader(tag, level, field) ==
    << tag % 256,
       (tag \div 256) + 4 * (level % 64),
       (level \div 64) + 16 * (field % 16),
       field \div 16 >>

\* The pieces buffers are built from: record headers with a short, an empty
\* and an extended size field, 32-bit words that serve as extended sizes or as
\* bodies, and single bytes that serve as bodies and as trailing fragments.
RecPieces ==
    { PackHeader(HWPTAG_DOCUMENT_PROPERTIES, 0, 0),
      PackHeader(HWPTAG_PARA_HEADER, 0, 1),
      PackHeader(HWPTAG_PARA_TEXT, 1, 2),
      PackHeader(HWPTAG_PARA_TEXT, 513, 4),
      PackHeader(HWPTAG_PARA_TEXT, 1, EXTENDED_SIZE),
      PackHeader(1023, 1023, EXTENDED_SIZE - 1),
      <<2, 0, 0, 0>>,
      <<0, 0, 1, 0>>,
      <<255, 255, 255, 255>>,
      <<7>>,
      <<200, 9>> }

\* The largest number of pieces in a buffer.
MaxRecPieces == 4

\* --- the call ------------------------------------------------------------

CallReadRecords ==
    /\ rec_result = NotCalled
    /\ rec_result' = read_records(rec_data)
    /\ UNCHANGED <<rec_data, pt_vars, deob_vars, dec_vars, hdr_vars,
                 sec_vars, eq_vars, tbl_vars, hwp_vars, cli_vars, xml_vars>>

InitRecords ==
    /\ rec_data \in BuffersOf(RecPieces, MaxRecPieces)
    /\ rec_result = NotCalled
    /\ PtIdle /\ DeobIdle /\ DecIdle /\ HdrIdle
    /\ SecIdle /\ EqIdle /\ TblIdle /\ HwpIdle /\ CliIdle /\ XmlIdle

NextRecords == CallReadRecords

SpecRecords == InitRecords /\ [][NextRecords]_vars

\* --- the record layout, read off the wire ---------------------------------

\* Bit k of the little-endian 32-bit word at byte offset off.
LeBit(data, off, k) == (At(data, off + (k \div 8)) \div (2 ^ (k % 8))) % 2

\* Bits from .. from + n - 1 of that word, as a number (n <= 16).
RECURSIVE LeBits(_, _, _, _)
LeBits(data, off, from, n) ==
    IF n = 0 THEN 0 ELSE LeBit(data, off, from) + 2 * LeBits(data, off, from + 1, n - 1)

\* The size field: the high nibble of byte 2 and byte 3.
SizeField(data, off) == (At(data, off + 2) \div 16) + 16 * At(data, off + 3)

\* Whether the 4 or 8 header bytes of a record lie in the buffer from off.
HeaderComplete(data, off) ==
    /\ off + 4 <= Len(data)
    /\ SizeField(data, off) = 4095 => off + 8 <= Len(data)

HeaderBytes(data, off) == IF SizeField(data, off) = 4095 THEN 8 ELSE 4

\* Whether the declared body of the record at off (its header complete) lies
\* in the buffer, and where it ends.  An extended size of 2^16 or more fits in
\* no buffer of the model.
BodyFits(data, off) ==
    IF SizeField(data, off) = 4095
    THEN /\ At(data, off + 6) = 0
         /\ At(data, off + 7) = 0
         /\ off + 8 + At(data, off + 4) + 256 * At(data, off + 5) <= Len(data)
    ELSE off + 4 + SizeField(data, off) <= Len(data)

DeclaredSize(data, off) ==
    IF SizeField(data, off) = 4095
    THEN At(data, off + 4) + 256 * At(data, off + 5)
    ELSE SizeField(data, off)

CompleteRecordAt(data, off) == HeaderComplete(data, off) /\ BodyFits(data, off)

RecordEnd(data, off) == off + HeaderBytes(data, off) + DeclaredSize(data, off)

\* The offsets at which the complete records of the buffer start, one after
\* the other from off.
RECURSIVE RecordOffsets(_, _)
RecordOffsets(data, off) ==
    IF CompleteRecordAt(data, off)
    THEN <<off>> \o RecordOffsets(data, RecordEnd(data, off))
    ELSE <<>>

\* The offset after the last complete record.
RecordsEnd(data) ==
    LET offs == RecordOffsets(data, 0) IN
    IF offs = <<>> THEN 0 ELSE RecordEnd(data, offs[Len(offs)])

\* The bytes that follow the last complete record.
Trailing(data) == Len(data) - RecordsEnd(data)

\* The bytes an Ok result accounts for: per returned record its header bytes
\* (4, or 8 with an extended size) and its body.
RECURSIVE ConsumedBy(_, _, _)
ConsumedBy(data, records, off) ==
    IF records = <<>> \/ off + 4 > Len(data) THEN off
    ELSE ConsumedBy(data, Tail(records),
                    off + HeaderBytes(data, off) + Len(Head(records).data))

RecErrors == {"InvalidRecordHeader", "Parse"}

\* --- claims on read_records ------------------------------------------------

\* C1 (as stated): read_records never returns Ok while leaving input bytes
\* unconsumed: the header bytes and body sizes of the returned records sum to
\* the length of the buffer.
C1_OkConsumesAll ==
    rec_result.kind = "Ok" =>
        ConsumedBy(rec_data, rec_result.records, 0) = Len(rec_data)

\* C1 (amended): read_records returns an error, or Ok with the header bytes
\* and body sizes of the returned records summing to the length of the buffer
\* less at most 3 trailing bytes.
C1_OkConsumesAllButFragment ==
    rec_result.kind = "Ok" =>
        Len(rec_data) - ConsumedBy(rec_data, rec_result.records, 0) \in 0..3

C1_Witness ==
    /\ rec_result.kind = "Ok"
    /\ Len(rec_result.records) = 2
    /\ Len(rec_data) - ConsumedBy(rec_data, rec_result.records, 0) = 2

\* C2: 1 to 3 bytes after the last complete record (or no byte) end the
\* stream: the call returns Ok with the complete records; 4 or more bytes that
\* form no complete record make the call return an error.
C2_TrailingFragment ==
    rec_result # NotCalled =>
        LET offs == RecordOffsets(rec_data, 0)
            end == IF offs = <<>> THEN 0 ELSE RecordEnd(rec_data, offs[Len(offs)])
            trailing == Len(rec_data) - end
        IN
        /\ trailing \in 0..3 =>
              /\ rec_result.kind = "Ok"
              /\ Len(rec_result.records) = Len(offs)
              /\ \A k \in 1..Len(rec_result.records) :
                    rec_result.records[k].data =
                        Slice(rec_data, offs[k] + HeaderBytes(rec_data, offs[k]),
                              RecordEnd(rec_data, offs[k]))
        /\ trailing >= 4 => rec_result.kind \in RecErrors

C2_Witness ==
    /\ rec_result.kind = "Ok"
    /\ Len(rec_result.records) >= 1
    /\ Trailing(rec_data) = 3

\* C3: every returned record has tag = bits 0-9 and level = bits 10-19 of its
\* header word; a size field below 0xFFF is the size and the body follows the
\* 4 header bytes; a size field of 0xFFF is followed by 4 bytes holding the
\* size, and the body follows them; size is the length of the body.
RECURSIVE HeadersDecoded(_, _, _)
HeadersDecoded(data, records, off) ==
    \/ records = <<>>
    \/ /\ off + 4 <= Len(data)
       /\ LET r == Head(records)
              field == LeBits(data, off, 20, 12)
              start == IF field = 4095 THEN off + 8 ELSE off + 4
          IN
          /\ r.tag_id = LeBits(data, off, 0, 10)
          /\ r.level = LeBits(data, off, 10, 10)
          /\ start <= Len(data)
          /\ field < 4095 => r.size = field
          /\ field = 4095 =>
                /\ At(data, off + 6) = 0
                /\ At(data, off + 7) = 0
                /\ r.size = At(data, off + 4) + 256 * At(data, off + 5)
          /\ r.size = Len(r.data)
          /\ start + r.size <= Len(data)
          /\ r.data = Slice(data, start, start + r.size)
          /\ HeadersDecoded(data, Tail(records), start + r.size)

C3_HeaderDecoding ==
    rec_result.kind = "Ok" => HeadersDecoded(rec_data, rec_result.records, 0)

C3_Witness ==
    /\ rec_result.kind = "Ok"
    /\ Len(rec_result.records) = 1
    /\ SizeField(rec_data, 0) = 4095
    /\ rec_result.records[1].tag_id = HWPTAG_PARA_TEXT
    /\ rec_result.records[1].level = 1
    /\ rec_result.records[1].size = 2

\* C4: InvalidRecordHeader exactly when the scan meets a header with size
\* field 0xFFF and fewer than 4 bytes after it; Parse exactly when it meets a
\* record whose declared size exceeds the bytes after its header; a size of 0
\* is accepted with an empty body; a failure returns no record.
C4_Errors ==
    rec_result # NotCalled =>
        LET p == RecordsEnd(rec_data)
            header == p + 4 <= Len(rec_data)
        IN
        /\ rec_result.kind = "InvalidRecordHeader" <=>
              /\ header
              /\ SizeField(rec_data, p) = 4095
              /\ Len(rec_data) - (p + 4) < 4
        /\ rec_result.kind = "Parse" <=>
              /\ header
              /\ HeaderComplete(rec_data, p)
              /\ ~BodyFits(rec_data, p)
        /\ rec_result.kind \in RecErrors => rec_result.records = <<>>
        /\ rec_result.kind = "Ok" =>
              \A k \in 1..Len(rec_result.records) :
                  rec_result.records[k].size = 0 => rec_result.records[k].data = <<>>
        /\ rec_result.kind = "Ok" =>
              LET offs == RecordOffsets(rec_data, 0) IN
              \A k \in 1..Len(offs) :
                  SizeField(rec_data, offs[k]) = 0
                      => /\ k <= Len(rec_result.records)
                         /\ rec_result.records[k].size = 0

C4_Witness ==
    /\ rec_result.kind = "Parse"
    /\ RecordsEnd(rec_data) > 0
    /\ SizeField(rec_data, 0) = 0

\* ------------------------------------------------------------------------
\* hwp/para_text.rs
\* ------------------------------------------------------------------------

\* A String is the sequence of its chars, a char the number of its Unicode
\* scalar value.

ControlExtendCodes == {1, 2, 3, 11, 12, 14, 15, 16, 17, 18, 21, 22, 23}
ControlInlineCodes == {4, 5, 6, 7, 8, 9, 19, 20}

char_typeMutant(code) ==
    IF code > 31 THEN "Normal"
    ELSE IF code \in ControlExtendCodes \ {21, 22, 23} THEN "ControlExtend"
    ELSE IF code \in ControlInlineCodes \cup {21, 22, 23} THEN "ControlInline"
    ELSE "ControlChar"
char_type(code) ==
    IF code > 31 THEN "Normal"
    ELSE IF code \in ControlExtendCodes THEN "ControlExtend"
    ELSE IF code \in ControlInlineCodes THEN "ControlInline"
    ELSE "ControlChar"

\* u16::from_le_bytes
u16_from_le_bytes(b0, b1) == b0 + 256 * b1

\* char::from_u32(code as u32) for a u16 code: None (here <<>>) for a
\* surrogate code point, Some(ch) (here <<ch>>) otherwise.
char_from_u32(code) == IF code >= 55296 /\ code <= 57343 THEN <<>> ELSE <<code>>

\* What the CharType::ControlChar arm pushes.
ControlCharText(code) ==
    CASE code = 10 -> <<10>>
      [] code = 13 -> <<>>
      [] code = 24 -> <<45>>
      [] code = 30 -> <<32>>
      [] code = 31 -> <<32>>
      [] OTHER -> <<>>

\* What the CharType::ControlInline arm pushes.
ControlInlineText(code) == IF code = 9 THEN <<9>> ELSE <<>>

\* let skip = 14.min(len - pos)
PayloadSkipMutant(len, pos) == 14
PayloadSkip(len, pos) == IF len - pos < 14 THEN len - pos ELSE 14

\* The values of pos at the head of the while loop of extract_text_segments
\* and of extract_text (the two loops move pos alike), the last one being the
\* value the loop ends with.
RECURSIVE ScanFrom(_, _, _)
ScanFrom(data, pos, trace) ==
    LET len == Len(data) IN
    IF ~(pos + 1 < len) THEN Append(trace, pos)
    ELSE
        LET code == u16_from_le_bytes(At(data, pos), At(data, pos + 1))
            pos2 == pos + 2
        IN
        IF char_type(code) \in {"ControlInline", "ControlExtend"}
        THEN ScanFrom(data, pos2 + PayloadSkip(len, pos2), Append(trace, pos))
        ELSE ScanFrom(data, pos2, Append(trace, pos))

ScanPositions(data) == ScanFrom(data, 0, <<>>)

\* The loop of extract_text_segments from position pos, with `segments`
\* pushed and `current` collected, and the push of the last segment.
RECURSIVE SegmentsFrom(_, _, _, _)
SegmentsFrom(data, pos, segments, current) ==
    LET len == Len(data) IN
    IF ~(pos + 1 < len)
    THEN Append(segments, [text |-> current, has_control_after |-> FALSE])
    ELSE
        LET code == u16_from_le_bytes(At(data, pos), At(data, pos + 1))
            pos2 == pos + 2
            type == char_type(code)
        IN
        CASE type = "Normal" ->
                SegmentsFrom(data, pos2, segments, current \o char_from_u32(code))
          [] type = "ControlChar" ->
                SegmentsFrom(data, pos2, segments, current \o ControlCharText(code))
          [] type = "ControlInline" ->
                SegmentsFrom(data, pos2 + PayloadSkip(len, pos2), segments,
                             current \o ControlInlineText(code))
          [] type = "ControlExtend" ->
                SegmentsFrom(data, pos2 + PayloadSkip(len, pos2),
                             Append(segments, [text |-> current, has_control_after |-> TRUE]),
                             <<>>)

extract_text_segments(data) == SegmentsFrom(data, 0, <<>>, <<>>)

\* The loop of extract_text from position pos.
RECURSIVE TextFrom(_, _, _, _)
TextFrom(data, pos, text, controls) ==
    LET len == Len(data) IN
    IF ~(pos + 1 < len)
    THEN [text |-> text, controls |-> controls]
    ELSE
        LET code == u16_from_le_bytes(At(data, pos), At(data, pos + 1))
            pos2 == pos + 2
            type == char_type(code)
        IN
        CASE type = "Normal" ->
                TextFrom(data, pos2, text \o char_from_u32(code), controls)
          [] type = "ControlChar" ->
                TextFrom(data, pos2, text \o ControlCharText(code), controls)
          [] type = "ControlInline" ->
                TextFrom(data, pos2 + PayloadSkip(len, pos2),
                         text \o ControlInlineText(code), controls)
          [] type = "ControlExtend" ->
                TextFrom(data, pos2 + PayloadSkip(len, pos2), text,
                         Append(controls, code))

extract_text(data) == TextFrom(data, 0, <<>>, <<>>)

\* --- inputs of the PARA_TEXT scanners -------------------------------------

\* The two bytes of a code unit, and n copies of a piece.
Unit(code) == <<code % 256, code \div 256>>

RECURSIVE Repeat(_, _)
Repeat(piece, n) == IF n = 0 THEN <<>> ELSE piece \o Repeat(piece, n - 1)

\* Long bodies are built from these pieces: a letter, a high and a low
\* surrogate, a line break, an extend and an inline marker without payload, the
\* same with a complete 14-byte payload (one that reads as seven extend
\* markers, one of zeros), a 12-byte run that reads as six extend markers, and
\* a single byte, which shifts the alignment of what follows.
PtPieces ==
    { Unit(65), Unit(55357), Unit(56832), Unit(10),
      Unit(11), Unit(9),
      Unit(11) \o Repeat(Unit(17), 7),
      Unit(9) \o Repeat(Unit(0), 7),
      Repeat(Unit(2), 6),
      <<65>> }

\* Short bodies hold any of the codes 0..31 and a few characters, among them
\* the bounds of the surrogate range.
PtCodes == 0..31 \cup {32, 44032, 55295, 55296, 56319, 56320, 57343, 57344, 65535}

\* The largest number of pieces in a long body, of code units in a short one.
MaxPtPieces == 4
MaxPtUnits == 2

\* --- the calls -------------------------------------------------------------

CallExtractTextSegments ==
    /\ pt_segments = NotCalled
    /\ pt_segments' = Returned(extract_text_segments(pt_data))
    /\ UNCHANGED <<pt_data, pt_text, rec_vars, deob_vars, dec_vars, hdr_vars,
                 sec_vars, eq_vars, tbl_vars, hwp_vars, cli_vars, xml_vars>>

CallExtractText ==
    /\ pt_text = NotCalled
    /\ pt_text' = Returned(extract_text(pt_data))
    /\ UNCHANGED <<pt_data, pt_segments, rec_vars, deob_vars, dec_vars, hdr_vars,
                 sec_vars, eq_vars, tbl_vars, hwp_vars, cli_vars, xml_vars>>

InitParaText ==
    /\ \/ pt_data \in BuffersOf(PtPieces, MaxPtPieces)
       \/ pt_data \in BuffersOf({Unit(c) : c \in PtCodes}, MaxPtUnits)
    /\ pt_segments = NotCalled
    /\ pt_text = NotCalled
    /\ RecIdle /\ DeobIdle /\ DecIdle /\ HdrIdle
    /\ SecIdle /\ EqIdle /\ TblIdle /\ HwpIdle /\ CliIdle /\ XmlIdle

NextParaText == CallExtractTextSegments \/ CallExtractText

SpecParaText == InitParaText /\ [][NextParaText]_vars

\* --- the PARA_TEXT alphabet, as the format states it ------------------------

ExtendMarkerCodes == {1, 2, 3} \cup {11, 12} \cup 14..18 \cup 21..23
InlineMarkerCodes == 4..9 \cup {19, 20}

UnitAt(data, pos) == At(data, pos) + 256 * At(data, pos + 1)

\* The extend markers a scan from pos meets: a marker and an inline control
\* take 16 bytes, every other unit 2.
RECURSIVE ExtendMarkersMet(_, _)
ExtendMarkersMet(data, pos) ==
    IF pos + 2 > Len(data) THEN 0
    ELSE LET c == UnitAt(data, pos) IN
         IF c \in ExtendMarkerCodes THEN 1 + ExtendMarkersMet(data, pos + 16)
         ELSE IF c \in InlineMarkerCodes THEN ExtendMarkersMet(data, pos + 16)
         ELSE ExtendMarkersMet(data, pos + 2)

\* The units with an extend code at an even offset, met by the scan or not.
ExtendCodedUnits(data) ==
    Cardinality({i \in 0..(Len(data) \div 2) - 1 : UnitAt(data, 2 * i) \in ExtendMarkerCodes})

\* The UTF-16 units the body stands for, unit by unit from pos.
RECURSIVE EmittedUnits(_, _)
EmittedUnits(data, pos) ==
    IF pos + 2 > Len(data) THEN <<>>
    ELSE LET c == UnitAt(data, pos) IN
         CASE c > 31 -> <<c>> \o EmittedUnits(data, pos + 2)
           [] c = 10 -> <<10>> \o EmittedUnits(data, pos + 2)
           [] c = 24 -> <<45>> \o EmittedUnits(data, pos + 2)
           [] c \in {30, 31} -> <<32>> \o EmittedUnits(data, pos + 2)
           [] c = 9 -> <<9>> \o EmittedUnits(data, pos + 16)
           [] c \in InlineMarkerCodes \ {9} -> EmittedUnits(data, pos + 16)
           [] c \in ExtendMarkerCodes -> EmittedUnits(data, pos + 16)
           [] OTHER -> EmittedUnits(data, pos + 2)

IsHighSurrogate(u) == u >= 55296 /\ u <= 56319
IsLowSurrogate(u) == u >= 56320 /\ u <= 57343

\* UTF-16 without lone surrogates.
RECURSIVE WellFormedUtf16(_)
WellFormedUtf16(units) ==
    IF units = <<>> THEN TRUE
    ELSE IF IsHighSurrogate(units[1])
         THEN /\ Len(units) >= 2
              /\ IsLowSurrogate(units[2])
              /\ WellFormedUtf16(SubSeq(units, 3, Len(units)))
    ELSE IF IsLowSurrogate(units[1]) THEN FALSE
    ELSE WellFormedUtf16(Tail(units))

\* The text a well-formed UTF-16 sequence encodes.
RECURSIVE Utf16Decode(_)
Utf16Decode(units) ==
    IF units = <<>> THEN <<>>
    ELSE IF IsHighSurrogate(units[1])
         THEN <<65536 + (units[1] - 55296) * 1024 + (units[2] - 56320)>>
                  \o Utf16Decode(SubSeq(units, 3, Len(units)))
    ELSE <<units[1]>> \o Utf16Decode(Tail(units))

\* The UTF-16 encoding of a text.
RECURSIVE Utf16Encode(_)
Utf16Encode(text) ==
    IF text = <<>> THEN <<>>
    ELSE (IF text[1] >= 65536
          THEN <<55296 + ((text[1] - 65536) \div 1024), 56320 + ((text[1] - 65536) % 1024)>>
          ELSE <<text[1]>>) \o Utf16Encode(Tail(text))

RECURSIVE SegmentsText(_)
SegmentsText(segments) ==
    IF segments = <<>> THEN <<>> ELSE Head(segments).text \o SegmentsText(Tail(segments))

\* The code units of an even-length body.
BodyUnits(data) == [i \in 1..(Len(data) \div 2) |-> UnitAt(data, 2 * (i - 1))]

\* --- claims on the PARA_TEXT scanners ----------------------------------------

\* C5: extract_text_segments returns k + 1 segments for the k extend markers
\* the scan meets: the first k have has_control_after, the last has not.
C5_SegmentPerExtendMarker ==
    pt_segments.kind = "Returned" =>
        LET segs == pt_segments.value
            k == ExtendMarkersMet(pt_data, 0)
        IN
        /\ Len(segs) = k + 1
        /\ \A i \in 1..Len(segs) : segs[i].has_control_after <=> i <= k

C5_Witness ==
    /\ pt_segments.kind = "Returned"
    /\ Len(pt_segments.value) = 3
    /\ pt_segments.value[2].has_control_after
    /\ ~pt_segments.value[3].has_control_after
    /\ ExtendCodedUnits(pt_data) > 2

\* C6: the segmenter's text is the body taken unit by unit: a unit above 31
\* is emitted, 10 gives a newline, 24 '-', 30 and 31 a space, the other 2-byte
\* controls nothing; an inline control skips 14 bytes, gives a tab iff it is 9
\* and starts no segment; an extend control skips 14 bytes and gives nothing.
\* Stated for the bodies that stand for well-formed UTF-16.
C6_UnitByUnit ==
    (pt_segments.kind = "Returned" /\ WellFormedUtf16(EmittedUnits(pt_data, 0))) =>
        /\ Utf16Encode(SegmentsText(pt_segments.value)) = EmittedUnits(pt_data, 0)
        /\ Len(pt_segments.value) = ExtendMarkersMet(pt_data, 0) + 1

\* The same for the bodies whose units above 31 are no surrogates: there the
\* segmenter does emit unit by unit.
ParaTextUnitByUnitWithoutSurrogates ==
    (/\ pt_segments.kind = "Returned"
     /\ \A i \in 1..Len(EmittedUnits(pt_data, 0)) :
            ~IsHighSurrogate(EmittedUnits(pt_data, 0)[i])
                /\ ~IsLowSurrogate(EmittedUnits(pt_data, 0)[i])) =>
        /\ SegmentsText(pt_segments.value) = EmittedUnits(pt_data, 0)
        /\ Len(pt_segments.value) = ExtendMarkersMet(pt_data, 0) + 1

\* C7: for a text whose UTF-16 encoding has no lone surrogate, the extraction
\* of its UTF-16LE bytes yields the text, a surrogate pair giving the one
\* character it encodes.  The bodies taken are those of even length whose
\* units are all characters (above 31).
PlainText(data) ==
    /\ Len(data) % 2 = 0
    /\ \A i \in 1..Len(data) \div 2 : BodyUnits(data)[i] > 31
    /\ WellFormedUtf16(BodyUnits(data))

C7_Utf16RoundTrip ==
    PlainText(pt_data) =>
        /\ pt_text.kind = "Returned" =>
              pt_text.value.text = Utf16Decode(BodyUnits(pt_data))
        /\ pt_segments.kind = "Returned" =>
              pt_segments.value =
                  <<[text |-> Utf16Decode(BodyUnits(pt_data)), has_control_after |-> FALSE]>>

\* The same for the texts of the Basic Multilingual Plane.
ParaTextRoundTripWithoutSurrogates ==
    (PlainText(pt_data) /\ \A i \in 1..Len(pt_data) \div 2 : ~IsHighSurrogate(BodyUnits(pt_data)[i])) =>
        /\ pt_text.kind = "Returned" =>
              pt_text.value.text = Utf16Decode(BodyUnits(pt_data))
        /\ pt_segments.kind = "Returned" =>
              pt_segments.value =
                  <<[text |-> Utf16Decode(BodyUnits(pt_data)), has_control_after |-> FALSE]>>

\* ------------------------------------------------------------------------
\* hwp/crypto.rs
\* ------------------------------------------------------------------------

\* a ^ b on bytes.
RECURSIVE Xor(_, _)
Xor(a, b) ==
    IF a = 0 THEN b
    ELSE IF b = 0 THEN a
    ELSE (((a % 2) + (b % 2)) % 2) + 2 * Xor(a \div 2, b \div 2)

\* An i32 from the two 16-bit halves of its two's complement.
I32FromHalves(hi, lo) == IF hi >= 32768 THEN (hi - 65536) * 65536 + lo ELSE hi * 65536 + lo

\* The halves of an i32: \div rounds down, so they are those of the two's
\* complement of a negative number too.
LoHalf(x) == x % 65536
HiHalf(x) == (x \div 65536) % 65536

\* i32::from_le_bytes
i32_from_le_bytes(b0, b1, b2, b3) == I32FromHalves(b2 + 256 * b3, b0 + 256 * b1)

\* i32::wrapping_mul(a, m), computed on 16-bit halves for a multiplier
\* 0 <= m < 2^31 whose low half is below 2^15 (no product then exceeds 2^31).
wrapping_mul(a, m) ==
    LET p == LoHalf(a) * LoHalf(m)
        lo == p % 65536
        hi == ((p \div 65536) + ((LoHalf(a) * HiHalf(m)) % 65536)
                   + ((HiHalf(a) * LoHalf(m)) % 65536)) % 65536
    IN I32FromHalves(hi, lo)

\* i32::wrapping_add(a, c), on 16-bit halves.
wrapping_add(a, c) ==
    LET l == LoHalf(a) + LoHalf(c)
        hi == (HiHalf(a) + HiHalf(c) + (l \div 65536)) % 65536
    IN I32FromHalves(hi, l % 65536)

LCG_MULTIPLIER == 214013
LCG_INCREMENT == 2531011

\* random_seed.wrapping_mul(214013).wrapping_add(2531011)
LcgStep(random_seed) == wrapping_add(wrapping_mul(random_seed, LCG_MULTIPLIER), LCG_INCREMENT)

\* (random_seed >> 16) & 0x7FFF: the shift of an i32 is arithmetic.
Rand(random_seed) == (random_seed \div 65536) % 32768

\* if i >= 4: the bytes the XOR is applied to.
XorAppliesMutant(i) == i >= 0
XorApplies(i) == i >= 4

\* The body of the for loop of deobfuscate at index i, on the loop state
\* st = [data, random_seed, value, number].
DeobfuscateStep(st, i) ==
    LET refill == st.number = 0
        seed1 == IF refill THEN LcgStep(st.random_seed) ELSE st.random_seed
        value == IF refill THEN Rand(seed1) % 256 ELSE st.value
        seed2 == IF refill THEN LcgStep(seed1) ELSE st.random_seed
        number == IF refill THEN (Rand(seed2) % 16) + 1 ELSE st.number
    IN [data |-> IF XorApplies(i)
                 THEN [st.data EXCEPT ![i + 1] = Xor(At(st.data, i), value)]
                 ELSE st.data,
        random_seed |-> seed2,
        value |-> value,
        number |-> number - 1]

\* The iterations from..to - 1 of the for loop of deobfuscate, in order.  The
\* range is halved, and the first half evaluated before the second is entered
\* (the test on `number`, which is never negative, does that), so that the
\* evaluation does not nest once per byte.
RECURSIVE DeobfuscateRange(_, _, _)
DeobfuscateRange(st, from, to) ==
    IF from >= to THEN st
    ELSE IF to = from + 1 THEN DeobfuscateStep(st, from)
    ELSE LET mid == (from + to) \div 2
             first == DeobfuscateRange(st, from, mid)
         IN IF first.number >= 0 THEN DeobfuscateRange(first, mid, to) ELSE first

\* The for loop of deobfuscate from index i.
DeobfuscateFrom(st, i) == DeobfuscateRange(st, i, Len(st.data)).data

\* The state the loop starts in.
DeobfuscateStart(data) ==
    [data |-> data,
     random_seed |-> i32_from_le_bytes(At(data, 0), At(data, 1), At(data, 2), At(data, 3)),
     value |-> 0,
     number |-> 0]

\* deobfuscate(&mut data): the content of data on return.
deobfuscateMutant(data) == DeobfuscateFrom(DeobfuscateStart(data), 4)
deobfuscate(data) == DeobfuscateFrom(DeobfuscateStart(data), 0)

\* --- decrypt_distribution_stream -------------------------------------------

DecryptFailed(detail) == [kind |-> "DecryptFailed", detail |-> detail]

\* The aes and ecb crates are not part of the repository.  The block cipher is
\* stood for by a byte-wise transformation that depends on the key and on the
\* block; what the model keeps of the crates is when they fail and how long
\* their output is.
aes128_decrypt_block(key, block) == [i \in 1..16 |-> Xor(block[i], key[i])]

\* Aes128EcbDec::new_from_slice(key): the key must hold 16 bytes.
KeyInitOk(key) == Len(key) = 16

\* decrypt_padded_mut::<NoPadding>(buf): an error unless buf is a whole number
\* of 16-byte blocks, else every block decrypted in place, nothing unpadded.
PaddedOk(buf) == Len(buf) % 16 = 0

ecb_decrypt(key, buf) ==
    [i \in 1..Len(buf) |->
        aes128_decrypt_block(key, SubSeq(buf, i - ((i - 1) % 16), i - ((i - 1) % 16) + 15))
            [((i - 1) % 16) + 1]]

\* The 256 bytes copied into meta.
DistributionMetaMutant(data) == Slice(data, 0, 256)
DistributionMeta(data) == Slice(data, 4, 260)

\* The result holds, beside what the function returns, whether the cipher was
\* set up and called (aes_called).
\* 4 + (meta[0] & 0xF)
KeyOffsetMutant(meta) == 4 + At(meta, 0)
KeyOffset(meta) == 4 + (At(meta, 0) % 16)

decrypt_distribution_stream(data) ==
    IF Len(data) < 260 THEN DecryptFailed("Distribution stream too short")
    ELSE
        LET meta == deobfuscate(DistributionMeta(data))
            key_offset == KeyOffset(meta)
        IN
        IF key_offset + 16 > 256 THEN DecryptFailed("Key offset out of range")
        ELSE
            LET key == Slice(meta, key_offset, key_offset + 16)
                encrypted == Slice(data, 260, Len(data))
            IN
            IF encrypted = <<>>
            THEN [kind |-> "Ok", bytes |-> <<>>, aes_called |-> FALSE]
            ELSE IF ~KeyInitOk(key) THEN DecryptFailed("AES key init failed")
            ELSE IF ~PaddedOk(encrypted) THEN DecryptFailed("AES decrypt failed")
            ELSE [kind |-> "Ok", bytes |-> ecb_decrypt(key, encrypted), aes_called |-> TRUE]

\* --- inputs of the cryptosystem ----------------------------------------------

\* A 256-byte header: four seed bytes and 252 bytes base, base + step, ...
HeaderOf(seed, fill) == seed \o [i \in 1..252 |-> (fill.base + fill.step * i) % 256]

SeedBytes == {0, 1, 128, 255}

HeaderFills ==
    { [base |-> 0, step |-> 0], [base |-> 42, step |-> 0],
      [base |-> 255, step |-> 0], [base |-> 3, step |-> 7] }

\* How often deobfuscate is applied to a header.
MaxDeobCalls == 2

\* What precedes the header in a distribution stream, the seeds of its header
\* and the lengths of the streams cut short.
StreamPrefixes == {<<0, 0, 0, 0>>, <<28, 0, 0, 16>>, <<255, 255, 255, 255>>}
StreamSeeds == {<<0, 0, 0, 0>>, <<1, 128, 127, 255>>, <<15, 0, 0, 0>>, <<255, 1, 2, 3>>}
ShortLengths == {0, 3, 100, 259}

\* The largest number of bytes after the header.
MaxTail == 33

StreamTail(n) == [i \in 1..n |-> (11 * i) % 256]

\* --- the calls -------------------------------------------------------------

CallDeobfuscate ==
    /\ deob_orig # <<>>
    /\ deob_calls < MaxDeobCalls
    /\ deob_data' = deobfuscate(deob_data)
    /\ deob_calls' = deob_calls + 1
    /\ UNCHANGED <<deob_orig, rec_vars, pt_vars, dec_vars, hdr_vars,
                 sec_vars, eq_vars, tbl_vars, hwp_vars, cli_vars, xml_vars>>

InitDeobfuscate ==
    /\ deob_orig \in {HeaderOf(seed, fill) : seed \in [1..4 -> SeedBytes], fill \in HeaderFills}
    /\ deob_data = deob_orig
    /\ deob_calls = 0
    /\ RecIdle /\ PtIdle /\ DecIdle /\ HdrIdle
    /\ SecIdle /\ EqIdle /\ TblIdle /\ HwpIdle /\ CliIdle /\ XmlIdle

NextDeobfuscate == CallDeobfuscate

SpecDeobfuscate == InitDeobfuscate /\ [][NextDeobfuscate]_vars

CallDecrypt ==
    /\ dec_result = NotCalled
    /\ dec_result' = decrypt_distribution_stream(dec_data)
    /\ UNCHANGED <<dec_data, rec_vars, pt_vars, deob_vars, hdr_vars,
                 sec_vars, eq_vars, tbl_vars, hwp_vars, cli_vars, xml_vars>>

InitDecrypt ==
    /\ \E prefix \in StreamPrefixes, seed \in StreamSeeds :
          LET whole == prefix \o HeaderOf(seed, [base |-> 3, step |-> 7]) IN
          \/ \E n \in 0..MaxTail : dec_data = whole \o StreamTail(n)
          \/ \E n \in ShortLengths : dec_data = SubSeq(whole, 1, n)
    /\ dec_result = NotCalled
    /\ RecIdle /\ PtIdle /\ DeobIdle /\ HdrIdle
    /\ SecIdle /\ EqIdle /\ TblIdle /\ HwpIdle /\ CliIdle /\ XmlIdle

NextDecrypt == CallDecrypt

SpecDecrypt == InitDecrypt /\ [][NextDecrypt]_vars

\* --- the stream deobfuscate is specified by ----------------------------------

\* Unsigned 32-bit arithmetic on halves [lo, hi], modulo 2^32.
U32Add(a, b) ==
    LET lo == a.lo + b.lo
        hi == a.hi + b.hi + (lo \div 65536)
    IN [lo |-> lo % 65536, hi |-> hi % 65536]

RECURSIVE U32Times(_, _)
U32Times(a, m) ==
    IF m = 0 THEN [lo |-> 0, hi |-> 0]
    ELSE LET rest == U32Times(U32Add(a, a), m \div 2)
         IN IF m % 2 = 1 THEN U32Add(a, rest) ELSE rest

\* seed <- seed * 214013 + 2531011; the bits of a wrapping signed product and
\* sum are those of the unsigned ones.
SeedAfter(seed) ==
    U32Add(U32Times(seed, 214013), [lo |-> 2531011 % 65536, hi |-> 2531011 \div 65536])

\* (seed >> 16) & 0x7FFF
SeedBits(seed) == seed.hi % 32768

\* The first 256 values of the run-length stream that starts at index 0.
RECURSIVE RunStream(_, _)
RunStream(seed, stream) ==
    IF Len(stream) >= 256 THEN SubSeq(stream, 1, 256)
    ELSE LET s1 == SeedAfter(seed)
             s2 == SeedAfter(s1)
             value == SeedBits(s1) % 256
             length == (SeedBits(s2) % 16) + 1
         IN RunStream(s2, stream \o [k \in 1..length |-> value])

\* C8: one application of deobfuscate leaves bytes 0-3 of the header as they
\* were and XORs every byte i >= 4 with the value at index i of the run-length
\* stream that starts at index 0 and is seeded from bytes 0-3, so that the runs
\* covering indices 0-3 are consumed.
C8_DeobfuscateStream ==
    deob_calls = 1 =>
        LET stream == RunStream(u32_from_le_bytes(At(deob_orig, 0), At(deob_orig, 1),
                                                  At(deob_orig, 2), At(deob_orig, 3)), <<>>)
        IN /\ Len(deob_data) = 256
           /\ \A i \in 0..255 :
                 At(deob_data, i) = IF i < 4 THEN At(deob_orig, i)
                                    ELSE Xor(At(deob_orig, i), stream[i + 1])

\* C8, its case: a header of zeros, whose first run (value 38) covers indices
\* 0-7 and whose second (value 246) starts at index 8.
C8_Witness ==
    /\ deob_calls = 1
    /\ deob_orig = [i \in 1..256 |-> 0]
    /\ SubSeq(deob_data, 1, 12) = <<0, 0, 0, 0, 38, 38, 38, 38, 246, 246, 246, 246>>

\* The input with its first four bytes (or as many as it has) replaced.
WithPrefix(data, prefix) ==
    [i \in 1..Len(data) |-> IF i <= 4 THEN prefix[i] ELSE data[i]]

HWP_SIGNATURE ==
    <<72, 87, 80, 32, 68, 111, 99, 117, 109, 101, 110, 116, 32, 70, 105, 108, 101>>
        \o [i \in 1..15 |-> 0]

FLAG_COMPRESSED == 1
FLAG_PASSWORDMutant == 4
FLAG_PASSWORD == 2
FLAG_DISTRIBUTION == 4

\* FileVersion::from_u32
FileVersion_from_u32(v) ==
    [major |-> v.hi \div 256, minor |-> v.hi % 256,
     build |-> v.lo \div 256, revision |-> v.lo % 256]

\* (flags & flag) != 0, for a flag of one bit in the low half.
HasFlagMutant(flags, flag) == flags.lo = flag
HasFlag(flags, flag) == (flags.lo \div flag) % 2 = 1

HwpError(kind) == [kind |-> kind]

\* reader.read_exact and reader.read_u32 fail with an I/O error when the
\* reader, at position pos, holds fewer than n more bytes.
ReadFails(bytes, pos, n) == pos + n > Len(bytes)

from_reader(bytes) ==
    IF ReadFails(bytes, 0, 32) THEN HwpError("Io")
    ELSE IF Slice(bytes, 0, 32) # HWP_SIGNATURE THEN HwpError("InvalidSignature")
    ELSE IF ReadFails(bytes, 32, 4) THEN HwpError("Io")
    ELSE
        LET version_raw == u32_from_le_bytes(At(bytes, 32), At(bytes, 33),
                                             At(bytes, 34), At(bytes, 35))
            version == FileVersion_from_u32(version_raw)
        IN
        IF ReadFails(bytes, 36, 4) THEN HwpError("Io")
        ELSE
            LET flags == u32_from_le_bytes(At(bytes, 36), At(bytes, 37),
                                           At(bytes, 38), At(bytes, 39))
                compressed == HasFlag(flags, FLAG_COMPRESSED)
                password == HasFlag(flags, FLAG_PASSWORD)
                distribution == HasFlag(flags, FLAG_DISTRIBUTION)
            IN
            IF password THEN HwpError("PasswordProtected")
            ELSE [kind |-> "Ok",
                  header |-> [version |-> version, compressed |-> compressed,
                              password |-> password, distribution |-> distribution,
                              flags |-> flags]]

\* --- inputs of from_reader ---------------------------------------------------

\* The magic, and the magic with its first letter, a letter in the middle, its
\* last byte or its padding changed.
Signatures ==
    { HWP_SIGNATURE,
      [HWP_SIGNATURE EXCEPT ![1] = 104],
      [HWP_SIGNATURE EXCEPT ![9] = 32],
      [HWP_SIGNATURE EXCEPT ![32] = 1],
      [i \in 1..32 |-> IF i <= 17 THEN HWP_SIGNATURE[i] ELSE 32] }

Versions == {<<0, 3, 0, 5>>, <<255, 255, 255, 255>>}

\* The low byte of the flags word takes every value of this many bits.
MaxFlagBits == 3

FlagsLow == 0..(2 ^ MaxFlagBits - 1)
FlagsHigh == {<<0, 0, 0>>, <<255, 255, 255>>}

\* The lengths a FileHeader stream is cut to.
HeaderLengths == {0, 31, 32, 35, 36, 39, 40, 256}

CallFromReader ==
    /\ hdr_result = NotCalled
    /\ hdr_result' = from_reader(hdr_bytes)
    /\ UNCHANGED <<hdr_bytes, rec_vars, pt_vars, deob_vars, dec_vars,
                 sec_vars, eq_vars, tbl_vars, hwp_vars, cli_vars, xml_vars>>

InitHeader ==
    /\ \E sig \in Signatures, version \in Versions, low \in FlagsLow,
          high \in FlagsHigh, n \in HeaderLengths :
          hdr_bytes = SubSeq(sig \o version \o <<low>> \o high \o [i \in 1..216 |-> 0], 1, n)
    /\ hdr_result = NotCalled
    /\ RecIdle /\ PtIdle /\ DeobIdle /\ DecIdle
    /\ SecIdle /\ EqIdle /\ TblIdle /\ HwpIdle /\ CliIdle /\ XmlIdle

NextHeader == CallFromReader

SpecHeader == InitHeader /\ [][NextHeader]_vars

\* --- what is claimed of from_reader ------------------------------------------

Magic == <<72, 87, 80, 32, 68, 111, 99, 117, 109, 101, 110, 116, 32, 70, 105, 108, 101,
           0, 0, 0, 0, 0, 0, 0, 0, 0, 0, 0, 0, 0, 0, 0>>

\* Bit k (0..7) of the flags word at offset 36.
FlagBit(bytes, k) == (At(bytes, 36) \div (2 ^ k)) % 2 = 1

\* C10: from_reader returns InvalidSignature whenever the first 32 bytes differ
\* from the magic, whatever the flags; PasswordProtected whenever the magic
\* matches and flag bit 1 is set, whatever bits 0 and 2; otherwise a header with
\* compressed = bit 0 and distribution = bit 2; and every header it returns has
\* password = false.  (The 32 bytes and the flags word are there to be read.)
C10_HeaderOutcomes ==
    hdr_result.kind \notin {"Idle", "NotCalled"} =>
        LET n == Len(hdr_bytes) IN
        /\ (n >= 32 /\ Slice(hdr_bytes, 0, 32) # Magic) =>
               hdr_result.kind = "InvalidSignature"
        /\ (n >= 40 /\ Slice(hdr_bytes, 0, 32) = Magic /\ FlagBit(hdr_bytes, 1)) =>
               hdr_result.kind = "PasswordProtected"
        /\ (n >= 40 /\ Slice(hdr_bytes, 0, 32) = Magic /\ ~FlagBit(hdr_bytes, 1)) =>
               /\ hdr_result.kind = "Ok"
               /\ hdr_result.header.compressed = FlagBit(hdr_bytes, 0)
               /\ hdr_result.header.distribution = FlagBit(hdr_bytes, 2)
        /\ hdr_result.kind = "Ok" => ~hdr_result.header.password

\* C10, its case: the magic with all three flag bits set is refused as
\* password-protected.
C10_Witness ==
    /\ hdr_result.kind = "PasswordProtected"
    /\ Len(hdr_bytes) = 256
    /\ At(hdr_bytes, 36) = 7

\* ------------------------------------------------------------------------
\* hwp/control.rs, extract.rs
\* ------------------------------------------------------------------------

HWPTAG_CTRL_HEADER == HWPTAG_BEGIN + 55
HWPTAG_LIST_HEADER == HWPTAG_BEGIN + 56
HWPTAG_TABLE == HWPTAG_BEGIN + 61
HWPTAG_EQEDIT == HWPTAG_BEGIN + 72

\* Option<T>
None == [kind |-> "None"]
Some(v) == [kind |-> "Some", value |-> v]

\* make_ctrl_id: four ASCII bytes, the first the most significant, as halves.
make_ctrl_id(id) == [lo |-> 256 * id[3] + id[4], hi |-> 256 * id[1] + id[2]]

\* b"tbl "
CTRL_TABLE == make_ctrl_id(<<116, 98, 108, 32>>)

read_ctrl_id(data) ==
    IF Len(data) < 4 THEN None
    ELSE Some(u32_from_le_bytes(At(data, 0), At(data, 1), At(data, 2), At(data, 3)))

\* String::from_utf16(v).ok(): the chars of v from unit i on appended to s, or
\* None at the first unpaired surrogate.
RECURSIVE FromUtf16(_, _, _)
FromUtf16(v, i, s) ==
    IF i > Len(v) THEN Some(s)
    ELSE LET u == v[i] IN
         IF u < 55296 \/ u > 57343 THEN FromUtf16(v, i + 1, Append(s, u))
         ELSE IF u >= 56320 THEN None
         ELSE IF i + 1 > Len(v) THEN None
         ELSE LET u2 == v[i + 1] IN
              IF u2 < 56320 \/ u2 > 57343 THEN None
              ELSE FromUtf16(v, i + 2, Append(s, 65536 + (u - 55296) * 1024 + (u2 - 56320)))

String_from_utf16(v) == FromUtf16(v, 1, <<>>)

\* let start = 6
ScriptStartMutant == 4
ScriptStart == 6

extract_eqedit_script(data) ==
    IF Len(data) < 6 THEN None
    ELSE
        LET char_count == u16_from_le_bytes(At(data, 4), At(data, 5)) IN
        IF char_count = 0 THEN Some(<<>>)
        ELSE
            LET remaining == Len(data) - 6
                byte_count == char_count * 2
            IN
            IF remaining < byte_count THEN None
            ELSE
                LET utf16_data == Slice(data, ScriptStart, ScriptStart + byte_count)
                    utf16_units == [k \in 1..(Len(utf16_data) \div 2) |->
                                       u16_from_le_bytes(utf16_data[2 * k - 1], utf16_data[2 * k])]
                IN String_from_utf16(utf16_units)

\* The script pushed for an EQEDIT record met in a sub-tree: the script and a
\* newline unless there is none or it is empty.
EqeditLine(data) ==
    LET script == extract_eqedit_script(data) IN
    IF script.kind = "Some" /\ script.value # <<>> THEN script.value \o <<10>> ELSE <<>>

\* The inner loop of extract_para's scan: the end of the sub-tree of a
\* CTRL_HEADER of level ctrl_level.
RECURSIVE SubtreeEnd(_, _, _)
SubtreeEndMutant(records, scan, ctrl_level) == Len(records)
SubtreeEnd(records, scan, ctrl_level) ==
    IF scan < Len(records) /\ At(records, scan).level > ctrl_level
    THEN SubtreeEnd(records, scan + 1, ctrl_level)
    ELSE scan

\* para_text_data = Some(&rec.data): a later PARA_TEXT replaces an earlier one.
TakeParaTextMutant(para_text_data, data) ==
    IF para_text_data.kind = "None" THEN Some(data) ELSE para_text_data
TakeParaText(para_text_data, data) == Some(data)

\* The scan of extract_para from `scan`, with what it found so far:
\* [para_text_data, all_ctrl_subtrees, eqedit_texts, scan].
RECURSIVE ScanPara(_, _, _, _)
ScanPara(records, scan, level, found) ==
    IF ~(scan < Len(records)) THEN [found EXCEPT !.scan = scan]
    ELSE
        LET rec == At(records, scan)
            child_level == level + 1
        IN
        IF rec.tag_id = HWPTAG_PARA_HEADER /\ rec.level = level
        THEN [found EXCEPT !.scan = scan]
        ELSE IF rec.level < level THEN [found EXCEPT !.scan = scan]
        ELSE IF rec.tag_id = HWPTAG_PARA_TEXT /\ rec.level = child_level
        THEN ScanPara(records, scan + 1, level,
                      [found EXCEPT !.para_text_data = TakeParaText(@, rec.data)])
        ELSE IF rec.tag_id = HWPTAG_CTRL_HEADER /\ rec.level = child_level
        THEN LET ctrl_end == SubtreeEnd(records, scan + 1, rec.level) IN
             ScanPara(records, ctrl_end, level,
                      [found EXCEPT !.all_ctrl_subtrees = Append(@, <<scan, ctrl_end>>)])
        ELSE IF rec.tag_id = HWPTAG_EQEDIT /\ rec.level > level
        THEN LET script == extract_eqedit_script(rec.data) IN
             ScanPara(records, scan + 1, level,
                      IF script.kind = "Some" /\ script.value # <<>>
                      THEN [found EXCEPT !.eqedit_texts = Append(@, script.value)]
                      ELSE found)
        ELSE ScanPara(records, scan + 1, level, found)

\* --- the table formatter ---------------------------------------------------

parse_table_dimensions(data) ==
    IF Len(data) < 8 THEN None
    ELSE Some([rows |-> u16_from_le_bytes(At(data, 4), At(data, 5)),
               cols |-> u16_from_le_bytes(At(data, 6), At(data, 7))])

parse_cell_position(data) ==
    IF Len(data) < 16 THEN None
    ELSE Some([col |-> u16_from_le_bytes(At(data, 8), At(data, 9)),
               row |-> u16_from_le_bytes(At(data, 10), At(data, 11)),
               col_span |-> u16_from_le_bytes(At(data, 12), At(data, 13)),
               row_span |-> u16_from_le_bytes(At(data, 14), At(data, 15))])

\* str::replace(ch, with)
Replace(s, ch, with) ==
    FlattenSeq([i \in 1..Len(s) |-> IF s[i] = ch THEN with ELSE <<s[i]>>])

\* str::trim_end_matches(ch)
RECURSIVE trim_end_matches(_, _)
trim_end_matches(s, ch) ==
    IF s # <<>> /\ s[Len(s)] = ch THEN trim_end_matches(SubSeq(s, 1, Len(s) - 1), ch) ELSE s

\* s.replace('|', "\\|").replace('\n', " ")
escape_markdown_cellMutant(s) == Replace(s, 124, <<92, 124>>)
escape_markdown_cell(s) == Replace(Replace(s, 124, <<92, 124>>), 10, <<32>>)

\* The first loop of format_markdown_table: the cells from the k-th on put
\* into the grid.  A cell is the tuple (col, row, content).
RECURSIVE FillGrid(_, _, _, _, _)
FillGrid(grid, cells, k, rows, cols) ==
    IF k > Len(cells) THEN grid
    ELSE LET c == cells[k][1]
             r == cells[k][2]
             content == cells[k][3]
         IN FillGrid(IF r < rows /\ c < cols
                     THEN [grid EXCEPT ![r + 1][c + 1] = content]
                     ELSE grid,
                     cells, k + 1, rows, cols)

\* if i == 0: the row the separator line follows.
SeparatorAfterMutant(i) == i = 1
SeparatorAfter(i) == i = 0

format_markdown_table(cells, rows, cols) ==
    LET grid == FillGrid([r \in 1..rows |-> [c \in 1..cols |-> <<>>]], cells, 1, rows, cols)
        Line(row) ==
            <<124>>
            \o FlattenSeq([c \in 1..cols |->
                   <<32>> \o escape_markdown_cell(trim_end_matches(row[c], 10)) \o <<32, 124>>])
            \o <<10>>
        Separator ==
            <<124>> \o FlattenSeq([c \in 1..cols |-> <<32, 45, 45, 45, 32, 124>>]) \o <<10>>
    IN FlattenSeq([i \in 1..rows |->
           Line(grid[i]) \o (IF SeparatorAfter(i - 1) THEN Separator ELSE <<>>)])

\* --- the section tree walker -------------------------------------------------

RECURSIVE extract_para(_, _, _, _)
RECURSIVE extract_ctrl_subtree(_, _, _, _)
RECURSIVE extract_table_subtree(_, _, _, _)
RECURSIVE extract_ctrl_subtree_linear(_, _, _, _)
RECURSIVE extract_para_list_bounded(_, _, _, _, _)

\* if rec.header.level < base_level { break; } of extract_para_list.
BelowBaseMutant(rec, base_level) == rec.level <= base_level
BelowBase(rec, base_level) == rec.level < base_level

\* while *pos < records.len() of extract_para_list: [pos, text].
RECURSIVE extract_para_list(_, _, _, _)
extract_para_list(records, pos, base_level, text) ==
    IF ~(pos < Len(records)) THEN [pos |-> pos, text |-> text]
    ELSE
        LET rec == At(records, pos) IN
        IF BelowBase(rec, base_level) THEN [pos |-> pos, text |-> text]
        ELSE IF rec.tag_id = HWPTAG_PARA_HEADER /\ rec.level = base_level
        THEN LET r == extract_para(records, pos, base_level, text)
             IN extract_para_list(records, r.pos, base_level, r.text)
        ELSE extract_para_list(records, pos + 1, base_level, text)

extract_section_text(records, text) == extract_para_list(records, 0, 0, text).text

extract_para_list_bounded(records, pos, base_level, end, text) ==
    IF ~(pos < end) THEN [pos |-> pos, text |-> text]
    ELSE
        LET rec == At(records, pos) IN
        IF rec.level < base_level THEN [pos |-> pos, text |-> text]
        ELSE IF rec.tag_id = HWPTAG_PARA_HEADER /\ rec.level = base_level
        THEN LET r == extract_para(records, pos, base_level, text)
             IN extract_para_list_bounded(records, IF r.pos > end THEN end ELSE r.pos,
                                          base_level, end, r.text)
        ELSE extract_para_list_bounded(records, pos + 1, base_level, end, text)

\* The loop over the segments of extract_para, from the k-th segment on:
\* [ctrl_idx, text].
RECURSIVE EmitSegments(_, _, _, _, _)
EmitSegments(records, segments, k, all_ctrl_subtrees, st) ==
    IF k > Len(segments) THEN st
    ELSE
        LET seg == segments[k]
            pushed == st.text \o seg.text
        IN
        IF seg.has_control_after /\ st.ctrl_idx < Len(all_ctrl_subtrees)
        THEN LET sub == all_ctrl_subtrees[st.ctrl_idx + 1] IN
             EmitSegments(records, segments, k + 1, all_ctrl_subtrees,
                          [ctrl_idx |-> st.ctrl_idx + 1,
                           text |-> extract_ctrl_subtree(records, sub[1], sub[2], pushed)])
        ELSE EmitSegments(records, segments, k + 1, all_ctrl_subtrees,
                          [st EXCEPT !.text = pushed])

\* while ctrl_idx < all_ctrl_subtrees.len() of extract_para.
EmitRemainingMutant(records, all_ctrl_subtrees, ctrl_idx, text) == text
RECURSIVE EmitRemaining(_, _, _, _)
EmitRemaining(records, all_ctrl_subtrees, ctrl_idx, text) ==
    IF ~(ctrl_idx < Len(all_ctrl_subtrees)) THEN text
    ELSE LET sub == all_ctrl_subtrees[ctrl_idx + 1] IN
         EmitRemaining(records, all_ctrl_subtrees, ctrl_idx + 1,
                       extract_ctrl_subtree(records, sub[1], sub[2], text))

\* What a paragraph without PARA_TEXT pushes.
EmptyParaTextMutant == <<10>>
EmptyParaText == <<10, 10>>

extract_para(records, pos, level, text) ==
    LET para_start == pos + 1
        found == ScanPara(records, para_start, level,
                          [para_text_data |-> None, all_ctrl_subtrees |-> <<>>,
                           eqedit_texts |-> <<>>, scan |-> para_start])
    IN
    IF found.para_text_data.kind = "None"
    THEN [pos |-> found.scan, text |-> text \o EmptyParaText]
    ELSE
        LET segments == extract_text_segments(found.para_text_data.value)
            inter == EmitSegments(records, segments, 1, found.all_ctrl_subtrees,
                                  [ctrl_idx |-> 0, text |-> text])
            rest == EmitRemaining(records, found.all_ctrl_subtrees, inter.ctrl_idx, inter.text)
            equations == FlattenSeq([k \in 1..Len(found.eqedit_texts) |->
                                        found.eqedit_texts[k] \o <<10>>])
        IN [pos |-> found.scan, text |-> rest \o equations \o <<10>>]

\* while i < end of extract_ctrl_subtree.
RECURSIVE CtrlSubtreeFrom(_, _, _, _)
CtrlSubtreeFrom(records, i, end, text) ==
    IF ~(i < end) THEN text
    ELSE
        LET rec == At(records, i) IN
        IF rec.tag_id = HWPTAG_LIST_HEADER
        THEN IF i + 1 < end /\ At(records, i + 1).tag_id = HWPTAG_PARA_HEADER
             THEN LET r == extract_para_list_bounded(records, i + 1, At(records, i + 1).level,
                                                     end, text)
                  IN CtrlSubtreeFrom(records, r.pos, end, r.text)
             ELSE CtrlSubtreeFrom(records, i + 1, end, text)
        ELSE IF rec.tag_id = HWPTAG_EQEDIT
        THEN CtrlSubtreeFrom(records, i + 1, end, text \o EqeditLine(rec.data))
        ELSE CtrlSubtreeFrom(records, i + 1, end, text)

extract_ctrl_subtree(records, start, end, text) ==
    LET ctrl_id == read_ctrl_id(At(records, start).data) IN
    IF ctrl_id.kind = "Some" /\ ctrl_id.value = CTRL_TABLE
    THEN extract_table_subtree(records, start, end, text)
    ELSE CtrlSubtreeFrom(records, start + 1, end, text)

\* while i < end of extract_ctrl_subtree_linear.
RECURSIVE LinearFrom(_, _, _, _)
LinearFrom(records, i, end, text) ==
    IF ~(i < end) THEN text
    ELSE
        LET rec == At(records, i) IN
        IF rec.tag_id = HWPTAG_LIST_HEADER
        THEN IF i + 1 < end /\ At(records, i + 1).tag_id = HWPTAG_PARA_HEADER
             THEN LET r == extract_para_list_bounded(records, i + 1, At(records, i + 1).level,
                                                     end, text)
                  IN LinearFrom(records, r.pos, end, r.text)
             ELSE LinearFrom(records, i + 1, end, text)
        ELSE IF rec.tag_id = HWPTAG_EQEDIT
        THEN LinearFrom(records, i + 1, end, text \o EqeditLine(rec.data))
        ELSE LinearFrom(records, i + 1, end, text)

extract_ctrl_subtree_linearMutant(records, start, end, text) == text
extract_ctrl_subtree_linear(records, start, end, text) ==
    LinearFrom(records, start + 1, end, text)

\* The search for the TABLE record: [i, rows, cols, found_table].
RECURSIVE FindTable(_, _, _)
FindTable(records, i, end) ==
    IF ~(i < end) THEN [i |-> i, rows |-> 0, cols |-> 0, found_table |-> FALSE]
    ELSE IF At(records, i).tag_id = HWPTAG_TABLE
    THEN LET dims == parse_table_dimensions(At(records, i).data) IN
         IF dims.kind = "Some"
         THEN [i |-> i + 1, rows |-> dims.value.rows, cols |-> dims.value.cols,
               found_table |-> TRUE]
         ELSE [i |-> i + 1, rows |-> 0, cols |-> 0, found_table |-> FALSE]
    ELSE FindTable(records, i + 1, end)

\* list_header_indices, collected from j on.
RECURSIVE ListHeaderIndices(_, _, _, _)
ListHeaderIndices(records, j, end, list_header_level) ==
    IF ~(j < end) THEN <<>>
    ELSE (IF /\ At(records, j).tag_id = HWPTAG_LIST_HEADER
             /\ At(records, j).level = list_header_level
          THEN <<j>> ELSE <<>>)
         \o ListHeaderIndices(records, j + 1, end, list_header_level)

\* The loop over cell_ranges from the k-th on, with `cells` pushed.
RECURSIVE CollectCells(_, _, _, _, _)
CollectCells(records, cell_ranges, k, cols, cells) ==
    IF k > Len(cell_ranges) THEN cells
    ELSE
        LET lh_idx == cell_ranges[k][1]
            cell_end == cell_ranges[k][2]
            cell_pos == parse_cell_position(At(records, lh_idx).data)
            ci == lh_idx + 1
            cell_text ==
                IF ci < cell_end /\ At(records, ci).tag_id = HWPTAG_PARA_HEADER
                THEN extract_para_list_bounded(records, ci, At(records, ci).level,
                                               cell_end, <<>>).text
                ELSE <<>>
            idx == Len(cells) % 65536
            cell == IF cell_pos.kind = "Some"
                    THEN <<cell_pos.value.col, cell_pos.value.row, cell_text>>
                    ELSE <<IF cols > 0 THEN idx % cols ELSE 0,
                           IF cols > 0 THEN idx \div cols ELSE 0, cell_text>>
        IN CollectCells(records, cell_ranges, k + 1, cols, Append(cells, cell))

extract_table_subtree(records, start, end, text) ==
    LET t == FindTable(records, start + 1, end) IN
    IF ~t.found_table \/ t.rows = 0 \/ t.cols = 0
    THEN extract_ctrl_subtree_linear(records, start, end, text)
    ELSE IF ~(t.i < end /\ At(records, t.i).tag_id = HWPTAG_LIST_HEADER)
    THEN extract_ctrl_subtree_linear(records, start, end, text)
    ELSE
        LET list_header_level == At(records, t.i).level
            list_header_indices == ListHeaderIndices(records, t.i, end, list_header_level)
            cell_ranges ==
                [idx \in 1..Len(list_header_indices) |->
                    << list_header_indices[idx],
                       IF idx + 1 <= Len(list_header_indices)
                       THEN list_header_indices[idx + 1] ELSE end >>]
            cells == CollectCells(records, cell_ranges, 1, t.cols, <<>>)
        IN text \o format_markdown_table(cells, t.rows, t.cols)

\* --- extract_eqedit_script: inputs, call and claim -------------------------------

\* The code units scripts are made of: two letters, a Hangul syllable, a high
\* and a low surrogate.
EqUnits == {65, 66, 44032, 55357, 56832}

\* The largest number of code units after the count, and the largest count.
MaxEqUnits == 3

EqProperties == {<<0, 0, 0, 0>>, <<1, 2, 3, 4>>}

CallExtractEqeditScript ==
    /\ eq_script = NotCalled
    /\ eq_script' = extract_eqedit_script(eq_data)
    /\ UNCHANGED <<eq_data, rec_vars, pt_vars, deob_vars, dec_vars, hdr_vars,
                   sec_vars, tbl_vars, hwp_vars, cli_vars, xml_vars>>

InitEqedit ==
    /\ \E properties \in EqProperties, count \in 0..(MaxEqUnits + 1),
          units \in SeqsUpTo(EqUnits, MaxEqUnits), odd \in {<<>>, <<7>>}, cut \in 0..6 :
          LET body == properties \o Unit(count)
                          \o FlattenSeq([k \in 1..Len(units) |-> Unit(units[k])]) \o odd
          IN eq_data = IF cut < 6 THEN SubSeq(body, 1, cut) ELSE body
    /\ eq_script = NotCalled
    /\ RecIdle /\ PtIdle /\ DeobIdle /\ DecIdle /\ HdrIdle
    /\ SecIdle /\ TblIdle /\ HwpIdle /\ CliIdle /\ XmlIdle

NextEqedit == CallExtractEqeditScript

SpecEqedit == InitEqedit /\ [][NextEqedit]_vars

\* C20: extract_eqedit_script gives no script for a body shorter than 6 bytes,
\* the empty script for a character count (u16 at offset 4) of 0, no script
\* for a body with fewer than 2 * count bytes after offset 6, and otherwise the
\* decoding of exactly the count UTF-16LE units from offset 6 on, whatever
\* follows them.  (The decoding is that of well-formed UTF-16.)
C20_EqeditScript ==
    eq_script.kind \notin {"Idle", "NotCalled"} =>
        LET n == Len(eq_data)
            count == UnitAt(eq_data, 4)
            units == [k \in 1..count |-> UnitAt(eq_data, 6 + 2 * (k - 1))]
        IN
        /\ n < 6 => eq_script = None
        /\ (n >= 6 /\ count = 0) => eq_script = Some(<<>>)
        /\ (n >= 6 /\ count > 0 /\ n - 6 < 2 * count) => eq_script = None
        /\ (n >= 6 /\ count > 0 /\ n - 6 >= 2 * count /\ WellFormedUtf16(units)) =>
               eq_script = Some(Utf16Decode(units))

\* C20, its case: 4 zero bytes, 02 00, 41 00 42 00 gives "AB".
C20_Witness ==
    /\ eq_data = <<0, 0, 0, 0, 2, 0, 65, 0, 66, 0>>
    /\ eq_script = Some(<<65, 66>>)

\* --- format_markdown_table: inputs, call and claims ---------------------------

\* The chars cell contents are made of: a letter, '|', '\n' and '\'.
CellChars == {97, 124, 10, 92}

\* The longest cell content, and the largest number of rows and of columns.
MaxCellLen == 3
MaxTblDim == 2

\* The coordinates a cell may carry; 2 is out of range for a 2 x 2 table.
CellCoords == {0, 1, 2}

CallFormatMarkdownTable ==
    /\ tbl_args # Idle
    /\ tbl_result = NotCalled
    /\ tbl_result' = Returned(format_markdown_table(tbl_args.cells, tbl_args.rows,
                                                    tbl_args.cols))
    /\ UNCHANGED <<tbl_args, rec_vars, pt_vars, deob_vars, dec_vars, hdr_vars,
                   sec_vars, eq_vars, hwp_vars, cli_vars, xml_vars>>

InitTable ==
    /\ \E rows \in 1..MaxTblDim, cols \in 1..MaxTblDim,
          content \in SeqsUpTo(CellChars, MaxCellLen),
          col \in CellCoords, row \in CellCoords,
          others \in {<<>>} \cup {<<<<c, r, <<98, 10>>>>>> : c \in CellCoords, r \in CellCoords} :
          tbl_args = [cells |-> <<<<col, row, content>>>> \o others,
                      rows |-> rows, cols |-> cols]
    /\ tbl_result = NotCalled
    /\ RecIdle /\ PtIdle /\ DeobIdle /\ DecIdle /\ HdrIdle
    /\ SecIdle /\ EqIdle /\ HwpIdle /\ CliIdle /\ XmlIdle

NextTable == CallFormatMarkdownTable

SpecTable == InitTable /\ [][NextTable]_vars

\* The content a grid position ends up with: that of the last cell of the list
\* that names the position, nothing if none does.
RECURSIVE GridContent(_, _, _)
GridContent(cells, r, c) ==
    IF cells = <<>> THEN <<>>
    ELSE LET last == cells[Len(cells)] IN
         IF last[1] = c /\ last[2] = r THEN last[3]
         ELSE GridContent(SubSeq(cells, 1, Len(cells) - 1), r, c)

\* escape(c): trailing newlines trimmed, every other newline a space, every
\* '|' preceded by a '\'.
RECURSIVE TrimNewlines(_)
TrimNewlines(c) ==
    IF c = <<>> THEN <<>>
    ELSE IF c[Len(c)] = 10 THEN TrimNewlines(SubSeq(c, 1, Len(c) - 1))
    ELSE c

RECURSIVE EscapeChars(_)
EscapeChars(c) ==
    IF c = <<>> THEN <<>>
    ELSE (CASE Head(c) = 10 -> <<32>>
            [] Head(c) = 124 -> <<92, 124>>
            [] OTHER -> <<Head(c)>>) \o EscapeChars(Tail(c))

Escaped(c) == EscapeChars(TrimNewlines(c))

EmittedCell(c) == <<32>> \o Escaped(c) \o <<32, 124>>

\* The lines of a text: what each newline ends.
RECURSIVE LinesOf(_, _)
LinesOf(text, line) ==
    IF text = <<>> THEN (IF line = <<>> THEN <<>> ELSE <<line>>)
    ELSE IF Head(text) = 10 THEN <<line>> \o LinesOf(Tail(text), <<>>)
    ELSE LinesOf(Tail(text), Append(line, Head(text)))

\* No newline in e, and no '|' before the last char that no '\' precedes.
OneLineCell(e) ==
    /\ \A j \in 1..Len(e) : e[j] # 10
    /\ \A j \in 1..(Len(e) - 1) : e[j] = 124 => (j > 1 /\ e[j - 1] = 92)

\* C18: every cell of content c is emitted as " " + escape(c) + " |", escape(c)
\* being c with its trailing newlines trimmed, every remaining newline replaced
\* by a space and every '|' by '\|'; so no emitted cell holds a newline or an
\* unescaped '|' before the one that closes it, and every row is one line.
C18_EscapeLaw ==
    tbl_result.kind = "Returned" =>
        LET rows == tbl_args.rows
            cols == tbl_args.cols
            Cell(r, c) == EmittedCell(GridContent(tbl_args.cells, r, c))
            Row(r) == <<124>> \o FlattenSeq([c \in 1..cols |-> Cell(r - 1, c - 1)])
            lines == LinesOf(tbl_result.value, <<>>)
        IN
        /\ Len(lines) = rows + 1
        /\ \A r \in 1..rows : lines[IF r = 1 THEN 1 ELSE r + 1] = Row(r)
        /\ \A r \in 0..(rows - 1), c \in 0..(cols - 1) : OneLineCell(Cell(r, c))

\* C18, its case: the content "a\n|" is emitted as " a \| |".
C18_Witness ==
    /\ tbl_result.kind = "Returned"
    /\ tbl_args.rows = 1 /\ tbl_args.cols = 1
    /\ tbl_args.cells = <<<<0, 0, <<97, 10, 124>>>>>>
    /\ tbl_result.value = <<124, 32, 97, 32, 92, 124, 32, 124, 10,
                            124, 32, 45, 45, 45, 32, 124, 10>>

\* --- extract_section_text: inputs and call -------------------------------------

\* A record as read_records builds it.
Rec(tag_id, level, data) ==
    [tag_id |-> tag_id, level |-> level, size |-> Len(data), data |-> data]

\* The UTF-16LE bytes of a string of the Basic Multilingual Plane.
Utf16Le(str) == FlattenSeq([k \in 1..Len(str) |-> Unit(str[k])])

\* An extend marker (code 11) with its 14 bytes of payload.
ExtendMarker == Unit(11) \o [i \in 1..14 |-> 0]

\* The body of a PARA_TEXT of k extend markers: segment i is the letter
\* 'A' + i, or nothing when the segments are left empty; the last is kept.
RECURSIVE MarkedText(_, _, _)
MarkedText(k, i, empty) ==
    IF i = k THEN Utf16Le(<<65 + i>>)
    ELSE (IF empty THEN <<>> ELSE Utf16Le(<<65 + i>>)) \o ExtendMarker
             \o MarkedText(k, i + 1, empty)

\* The body of a CTRL_HEADER: the id, least significant byte first.
CtrlBody(id) == <<id[4], id[3], id[2], id[1]>>

\* The body of an EQEDIT: properties, count, script.
EqBody(script) == <<0, 0, 0, 0>> \o Unit(Len(script)) \o Utf16Le(script)

\* The body of a TABLE and of the LIST_HEADER of a cell.
TableBody(rows, cols) == <<0, 0, 0, 0>> \o Unit(rows) \o Unit(cols)
CellBody(col, row) == [i \in 1..8 |-> 0] \o Unit(col) \o Unit(row) \o Unit(1) \o Unit(1)

\* A list of one paragraph of the given text under a LIST_HEADER of level lv.
ListOf(lv, body, str) ==
    << Rec(HWPTAG_LIST_HEADER, lv, body), Rec(HWPTAG_PARA_HEADER, lv, <<>>),
       Rec(HWPTAG_PARA_TEXT, lv + 1, Utf16Le(str)) >>

\* Paragraphs of level 0 without controls: an empty one, "Hello", and a
\* one-letter text followed by a PARA_CHAR_SHAPE.
SimpleParas ==
    { << Rec(HWPTAG_PARA_HEADER, 0, <<>>) >>,
      << Rec(HWPTAG_PARA_HEADER, 0, <<>>),
         Rec(HWPTAG_PARA_TEXT, 1, Utf16Le(<<72, 101, 108, 108, 111>>)) >>,
      << Rec(HWPTAG_PARA_HEADER, 0, <<>>), Rec(HWPTAG_PARA_TEXT, 1, Utf16Le(<<122>>)),
         Rec(HWPTAG_BEGIN + 52, 1, <<0, 0, 0, 0>>) >> }

\* Sub-trees of a CTRL_HEADER of level 1: a footnote of text "x", an endnote of
\* text "y", an equation control of script "AB", a drawing without content and
\* a table of one cell.
SubtreeShapes ==
    { << Rec(HWPTAG_CTRL_HEADER, 1, CtrlBody(<<102, 110, 32, 32>>)) >>
          \o ListOf(2, <<>>, <<120>>),
      << Rec(HWPTAG_CTRL_HEADER, 1, CtrlBody(<<101, 110, 32, 32>>)) >>
          \o ListOf(2, <<>>, <<121>>),
      << Rec(HWPTAG_CTRL_HEADER, 1, CtrlBody(<<101, 113, 101, 100>>)),
         Rec(HWPTAG_EQEDIT, 2, EqBody(<<65, 66>>)) >>,
      << Rec(HWPTAG_CTRL_HEADER, 1, CtrlBody(<<103, 115, 111, 32>>)) >>,
      << Rec(HWPTAG_CTRL_HEADER, 1, CtrlBody(<<116, 98, 108, 32>>)),
         Rec(HWPTAG_TABLE, 2, TableBody(1, 1)) >> \o ListOf(2, CellBody(0, 0), <<116>>) }

\* The largest number of simple paragraphs of a section, of extend markers of
\* a PARA_TEXT and of sub-trees of a paragraph.
MaxParas == 2
MaxMarkers == 2
MaxSubtrees == 2

\* A paragraph of k extend markers and the given sub-trees: its PARA_TEXT
\* before or after them, its segments lettered or empty, with or without an
\* EQEDIT of script "E" of its own.
RichPara(k, subtrees, variant, equation) ==
    LET text == << Rec(HWPTAG_PARA_TEXT, 1, MarkedText(k, 0, variant = "dense")) >>
        subs == FlattenSeq(subtrees)
    IN << Rec(HWPTAG_PARA_HEADER, 0, <<>>) >>
       \o (IF variant = "text_last" THEN subs \o text ELSE text \o subs)
       \o (IF equation THEN << Rec(HWPTAG_EQEDIT, 1, EqBody(<<69>>)) >> ELSE <<>>)

CallExtractSectionText ==
    /\ sec_text = NotCalled
    /\ sec_text' = Returned(extract_section_text(sec_records, <<>>))
    /\ UNCHANGED <<sec_records, rec_vars, pt_vars, deob_vars, dec_vars, hdr_vars,
                   eq_vars, tbl_vars, hwp_vars, cli_vars, xml_vars>>

InitSection ==
    /\ \E simple \in SeqsUpTo(SimpleParas, MaxParas) :
          \/ sec_records = FlattenSeq(simple)
          \/ \E k \in 0..MaxMarkers, subtrees \in SeqsUpTo(SubtreeShapes, MaxSubtrees),
                variant \in {"plain", "text_last", "dense"}, equation \in BOOLEAN :
                sec_records = FlattenSeq(simple) \o RichPara(k, subtrees, variant, equation)
    /\ sec_text = NotCalled
    /\ RecIdle /\ PtIdle /\ DeobIdle /\ DecIdle /\ HdrIdle
    /\ EqIdle /\ TblIdle /\ HwpIdle /\ CliIdle /\ XmlIdle

NextSection == CallExtractSectionText

SpecSection == InitSection /\ [][NextSection]_vars

\* --- what is claimed of the section tree walker ----------------------------------

\* The indices (from 1) of the PARA_HEADERs of level 0, and the index after
\* the paragraph that starts at s.
ParaStarts(records) ==
    {j \in 1..Len(records) : records[j].tag_id = 66 /\ records[j].level = 0}

ParaStop(records, s) ==
    IF \E j \in ParaStarts(records) : j > s
    THEN CHOOSE j \in ParaStarts(records) : j > s /\ \A h \in ParaStarts(records) : h > s => j <= h
    ELSE Len(records) + 1

\* The PARA_TEXTs of level 1 of the paragraph that starts at s.
ParaTexts(records, s) ==
    {j \in (s + 1)..(ParaStop(records, s) - 1) :
        records[j].tag_id = 67 /\ records[j].level = 1}

\* A sequence of level-0 paragraphs without controls or equations, each with
\* at most one PARA_TEXT, of level 1.
PlainSection(records) ==
    /\ records # <<>> => 1 \in ParaStarts(records)
    /\ \A j \in 1..Len(records) :
          /\ records[j].tag_id \notin {71, 88}
          /\ records[j].tag_id = 67 => records[j].level = 1
    /\ \A s \in ParaStarts(records) : Cardinality(ParaTexts(records, s)) <= 1

\* What the paragraphs from index s on contribute, one after the other.
RECURSIVE PlainOutput(_, _)
PlainOutput(records, s) ==
    IF s > Len(records) THEN <<>>
    ELSE (IF ParaTexts(records, s) = {} THEN <<10, 10>>
          ELSE EmittedUnits(records[CHOOSE j \in ParaTexts(records, s) : TRUE].data, 0)
                   \o <<10>>)
         \o PlainOutput(records, ParaStop(records, s))

\* C15: on a sequence of level-0 paragraphs, extract_section_text appends the
\* paragraphs' outputs in record order: the decoded text and one newline for a
\* paragraph with a PARA_TEXT at level 1 and no controls or equations, two
\* newlines for a paragraph without PARA_TEXT, nothing for no record at all.
C15_PlainParagraphs ==
    (sec_text.kind = "Returned" /\ PlainSection(sec_records)) =>
        sec_text.value = PlainOutput(sec_records, 1)

\* C15, its case: "Hello" and an empty paragraph give "Hello\n" and "\n\n".
C15_Witness ==
    /\ sec_text.kind = "Returned"
    /\ Len(sec_records) = 3
    /\ sec_records[2].tag_id = 67 /\ sec_records[3].tag_id = 66
    /\ sec_text.value = <<72, 101, 108, 108, 111, 10, 10, 10>>

\* The elements of a finite set of numbers in ascending order.
RECURSIVE Ascending(_)
Ascending(S) ==
    IF S = {} THEN <<>>
    ELSE LET least == CHOOSE x \in S : \A y \in S : x <= y
         IN <<least>> \o Ascending(S \ {least})

\* The CTRL_HEADERs of level 1 of the paragraph that starts at s, in record
\* order, and the index after the sub-tree of the one at j: the records that
\* follow it with a level above 1.
ParaSubtrees(records, s) ==
    Ascending({j \in (s + 1)..(ParaStop(records, s) - 1) :
                  records[j].tag_id = 71 /\ records[j].level = 1})

SubtreeStop(records, j) ==
    LET later == {h \in (j + 1)..Len(records) : records[h].level <= 1}
    IN IF later = {} THEN Len(records) + 1
       ELSE CHOOSE h \in later : \A g \in later : h <= g

\* What the sub-tree of the CTRL_HEADER at j emits.
SubtreeOutput(records, j) ==
    extract_ctrl_subtree(records, j - 1, SubtreeStop(records, j) - 1, <<>>)

\* The scripts collected for the paragraph that starts at s: those of its
\* EQEDITs outside the sub-trees, each followed by a newline.
ParaEquations(records, s) ==
    LET at == Ascending({j \in (s + 1)..(ParaStop(records, s) - 1) :
                            records[j].tag_id = 88 /\ records[j].level = 1})
    IN FlattenSeq([i \in 1..Len(at) |-> EqeditLine(records[at[i]].data)])

\* Segment 0, sub-tree 0, segment 1, sub-tree 1, ...; then the sub-trees left
\* over, the equations and the closing newline.
InterleavedPara(records, s) ==
    LET texts == Ascending(ParaTexts(records, s))
        segments == extract_text_segments(records[texts[Len(texts)]].data)
        k == Len(segments) - 1
        subs == ParaSubtrees(records, s)
        m == Len(subs)
    IN FlattenSeq([i \in 1..(k + 1) |->
           segments[i].text
           \o (IF i <= k /\ i <= m THEN SubtreeOutput(records, subs[i]) ELSE <<>>)])
       \o (IF m > k
           THEN FlattenSeq([i \in 1..(m - k) |-> SubtreeOutput(records, subs[k + i])])
           ELSE <<>>)
       \o ParaEquations(records, s)
       \o <<10>>

RECURSIVE InterleavedOutput(_, _)
InterleavedOutput(records, s) ==
    IF s > Len(records) THEN <<>>
    ELSE (IF ParaTexts(records, s) = {} THEN <<10, 10>> ELSE InterleavedPara(records, s))
         \o InterleavedOutput(records, ParaStop(records, s))

\* C16: a paragraph with a PARA_TEXT of k extend markers and m CTRL_HEADER
\* sub-trees at level+1 emits segment 0, sub-tree 0, segment 1, sub-tree 1, ...:
\* the i-th sub-tree in record order right after the text of the i-th
\* extend-terminated segment; for m > k the remaining sub-trees after the last
\* segment's text, for m < k nothing for the surplus markers; every sub-tree once
\* and in record order; then the collected equations and the closing newline.
C16_Interleaving ==
    (sec_text.kind = "Returned" /\ sec_records # <<>>) =>
        sec_text.value = InterleavedOutput(sec_records, 1)

\* C16, its case: one marker and two sub-trees (m > k), "A", the footnote "x",
\* "B", the endnote "y", the paragraph's equation "E" and the closing newline.
C16_Witness ==
    /\ sec_text.kind = "Returned"
    /\ Len(sec_records) = 11
    /\ ParaSubtrees(sec_records, 1) = <<3, 7>>
    /\ sec_text.value = <<65, 120, 10, 66, 121, 10, 69, 10, 10>>

\* --- table sub-trees: inputs -------------------------------------------------

\* The largest number of cells of a table.
MaxCells == 2

\* The cells tables are made of: a paragraph under a LIST_HEADER that gives each
\* position of CellCoords, a LIST_HEADER without paragraph, a PARA_TEXT without
\* PARA_HEADER under a LIST_HEADER, and a paragraph under a LIST_HEADER whose
\* body is too short to give a position.
CellShapes ==
    {[kind |-> "para", col |-> c, row |-> r] : c \in CellCoords, r \in CellCoords}
    \cup {[kind |-> "bare", col |-> 0, row |-> 0], [kind |-> "bare", col |-> 1, row |-> 1],
          [kind |-> "headless", col |-> 1, row |-> 0],
          [kind |-> "short", col |-> 0, row |-> 0]}

\* The records of the n-th cell (from 1), whose text is the letter 'a' + n.
CellRecords(shape, n) ==
    CASE shape.kind = "para" -> ListOf(2, CellBody(shape.col, shape.row), <<97 + n>>)
      [] shape.kind = "bare" -> << Rec(HWPTAG_LIST_HEADER, 2, CellBody(shape.col, shape.row)) >>
      [] shape.kind = "headless" ->
            << Rec(HWPTAG_LIST_HEADER, 2, CellBody(shape.col, shape.row)),
               Rec(HWPTAG_PARA_TEXT, 3, Utf16Le(<<97 + n>>)) >>
      [] shape.kind = "short" -> ListOf(2, [i \in 1..8 |-> 0], <<97 + n>>)

\* What stands for the TABLE record: one of each size, one whose body is too
\* short, or none; and what follows it before the cells.
TableParts ==
    {<< Rec(HWPTAG_TABLE, 2, TableBody(rows, cols)) >> :
        rows \in 0..MaxTblDim, cols \in 0..MaxTblDim}
    \cup {<< Rec(HWPTAG_TABLE, 2, <<0, 0, 0, 0, 1, 0, 1>>) >>, <<>>}

AfterTable == {<<>>, << Rec(HWPTAG_BEGIN + 52, 2, <<>>) >>}

\* A paragraph "A", table, "B".
TablePara(table, after, cells) ==
    << Rec(HWPTAG_PARA_HEADER, 0, <<>>),
       Rec(HWPTAG_PARA_TEXT, 1, MarkedText(1, 0, FALSE)),
       Rec(HWPTAG_CTRL_HEADER, 1, CtrlBody(<<116, 98, 108, 32>>)) >>
    \o table \o after \o FlattenSeq([n \in 1..Len(cells) |-> CellRecords(cells[n], n)])

InitSubtree ==
    /\ \E table \in TableParts, after \in AfterTable,
          cells \in SeqsUpTo(CellShapes, MaxCells) :
          sec_records = TablePara(table, after, cells)
    /\ sec_text = NotCalled
    /\ RecIdle /\ PtIdle /\ DeobIdle /\ DecIdle /\ HdrIdle
    /\ EqIdle /\ TblIdle /\ HwpIdle /\ CliIdle /\ XmlIdle

SpecSubtree == InitSubtree /\ [][NextSection]_vars

\* --- what is claimed of table sub-trees ------------------------------------------

\* In the paragraph "A", table, "B" the CTRL_HEADER is the third record and its
\* sub-tree runs to the end.  The TABLE records of the sub-tree, and the first.
TableRecords(records) == {j \in 4..Len(records) : records[j].tag_id = 77}

FirstTable(records) ==
    CHOOSE j \in TableRecords(records) : \A h \in TableRecords(records) : j <= h

\* rows and cols as the TABLE body gives them: u16 at offsets 4 and 6.
TableRows(records) == UnitAt(records[FirstTable(records)].data, 4)
TableCols(records) == UnitAt(records[FirstTable(records)].data, 6)

\* A TABLE that gives rows > 0 and cols > 0 and is immediately followed by a
\* LIST_HEADER.
ProperTable(records) ==
    /\ TableRecords(records) # {}
    /\ Len(records[FirstTable(records)].data) >= 8
    /\ TableRows(records) > 0
    /\ TableCols(records) > 0
    /\ FirstTable(records) < Len(records)
    /\ records[FirstTable(records) + 1].tag_id = 72

\* The LIST_HEADERs that start the cells, in record order: those after the
\* TABLE at the level of the first.
CellHeaders(records) ==
    LET t == FirstTable(records) IN
    Ascending({j \in (t + 1)..Len(records) :
                  records[j].tag_id = 72 /\ records[j].level = records[t + 1].level})

\* The text extracted for the n-th cell (from 1): what the walk of the
\* paragraph list beneath its LIST_HEADER gives, up to the next cell's.
CellText(records, n) ==
    LET heads == CellHeaders(records)
        stop == IF n < Len(heads) THEN heads[n + 1] ELSE Len(records) + 1
    IN IF heads[n] + 1 < stop /\ records[heads[n] + 1].tag_id = 66
       THEN extract_para_list_bounded(records, heads[n], records[heads[n] + 1].level,
                                      stop - 1, <<>>).text
       ELSE <<>>

\* The position <<row, col>> the n-th cell takes.  Its LIST_HEADER body gives
\* it, col at offset 8 and row at offset 10; a body too short to give it
\* leaves the cell without position, or, by_order, with the position of the
\* n-th cell of a table filled row by row.
NoPosition == <<65536, 65536>>

CellPosition(records, n, by_order) ==
    LET body == records[CellHeaders(records)[n]].data IN
    IF Len(body) >= 16 THEN <<UnitAt(body, 10), UnitAt(body, 8)>>
    ELSE IF by_order
         THEN <<(n - 1) \div TableCols(records), (n - 1) % TableCols(records)>>
         ELSE NoPosition

\* The text at grid position (r, c): that of the last cell that takes it, or
\* nothing.
GridText(records, r, c, by_order) ==
    LET takers == {n \in 1..Len(CellHeaders(records)) :
                      CellPosition(records, n, by_order) = <<r, c>>}
    IN IF takers = {} THEN <<>>
       ELSE CellText(records, CHOOSE n \in takers : \A h \in takers : h <= n)

\* rows data lines of cols cells, the separator line after row 0.
TableOutput(records, by_order) ==
    LET rows == TableRows(records)
        cols == TableCols(records)
        Row(r) == <<124>>
                  \o FlattenSeq([c \in 1..cols |->
                         EmittedCell(GridText(records, r - 1, c - 1, by_order))])
                  \o <<10>>
        Separator == <<124>> \o FlattenSeq([c \in 1..cols |-> <<32, 45, 45, 45, 32, 124>>])
                         \o <<10>>
    IN FlattenSeq([r \in 1..rows |-> Row(r) \o (IF r = 1 THEN Separator ELSE <<>>)])

\* C17 as claimed: a table whose TABLE gives rows > 0 and cols > 0 and is
\* immediately followed by a LIST_HEADER is emitted as rows lines of cols cells
\* and a separator line of cols "| --- |" cells after row 0; grid cell (r, c)
\* holds the text of the cell whose LIST_HEADER body gives row = r and col = c,
\* cells out of range are dropped, and positions no cell claims are empty.
C17_TableGrid ==
    (sec_text.kind = "Returned" /\ ProperTable(sec_records)) =>
        sec_text.value = <<65>> \o TableOutput(sec_records, FALSE) \o <<66, 10>>

\* C17 as amended: the same, a cell whose LIST_HEADER body is shorter than 16
\* bytes taking the position (n div cols, n mod cols), n being the number of
\* cells before it, and the last cell that takes a position holding it.
C17_TableGridByOrder ==
    (sec_text.kind = "Returned" /\ ProperTable(sec_records)) =>
        sec_text.value = <<65>> \o TableOutput(sec_records, TRUE) \o <<66, 10>>

\* C17, its case: a 2 x 2 table of two cells, the first at row 1 and col 0, the
\* second out of range: "| |", the separator, "| b | |".
C17_Witness ==
    /\ sec_text.kind = "Returned"
    /\ ProperTable(sec_records)
    /\ TableRows(sec_records) = 2 /\ TableCols(sec_records) = 2
    /\ Len(CellHeaders(sec_records)) = 2
    /\ CellPosition(sec_records, 1, TRUE) = <<1, 0>>
    /\ CellPosition(sec_records, 2, TRUE) = <<2, 1>>
    /\ sec_text.value = <<65, 124, 32, 32, 124, 32, 32, 124, 10,
                          124, 32, 45, 45, 45, 32, 124, 32, 45, 45, 45, 32, 124, 10,
                          124, 32, 98, 32, 124, 32, 32, 124, 10, 66, 10>>

\* The LIST_HEADERs of the sub-tree that a PARA_HEADER follows.
ListsWithPara(records) ==
    {j \in 4..(Len(records) - 1) : records[j].tag_id = 72 /\ records[j + 1].tag_id = 66}

\* C19: for a sub-tree of id "tbl " in a degenerate case (no TABLE record, a
\* TABLE body shorter than 8 bytes, rows = 0, cols = 0, or no LIST_HEADER right
\* after the TABLE) the output is what the linear walk of a sub-tree that is no
\* table gives for the same records, so that every paragraph reachable through
\* a LIST_HEADER followed by a PARA_HEADER contributes its line of text.
C19_DegenerateTable ==
    (sec_text.kind = "Returned" /\ ~ProperTable(sec_records)) =>
        LET walked == CtrlSubtreeFrom(sec_records, 3, Len(sec_records), <<>>)
            lines == LinesOf(walked, <<>>)
        IN /\ sec_text.value = <<65>> \o walked \o <<66, 10>>
           /\ Len(lines) = Cardinality(ListsWithPara(sec_records))
           /\ \A i \in 1..Len(lines) : lines[i] # <<>>

\* C19, its case: a TABLE of 0 rows and one cell of text "b".
C19_Witness ==
    /\ sec_text.kind = "Returned"
    /\ TableRecords(sec_records) # {}
    /\ Len(sec_records[FirstTable(sec_records)].data) = 8
    /\ TableRows(sec_records) = 0 /\ TableCols(sec_records) = 1
    /\ sec_text.value = <<65, 98, 10, 66, 10>>

\* ------------------------------------------------------------------------
\* hwp/stream.rs, hwp/docinfo.rs
\* ------------------------------------------------------------------------

\* DeflateDecoder::read_to_end belongs to the flate2 crate.  The model inflates
\* the streams made of stored blocks (type 0: a header byte, LEN, NLEN = not
\* LEN, LEN bytes), which is all its documents hold beside streams that are no
\* deflate data at all (reserved block type 3, NLEN that is not the complement
\* of LEN); what follows the final block is not read.  Streams cut short and
\* Huffman-coded blocks are not among the inputs.
RECURSIVE InflateFrom(_, _, _)
InflateFrom(data, pos, out) ==
    IF pos + 5 > Len(data) THEN HwpError("DecompressFailed")
    ELSE
        LET bfinal == At(data, pos) % 2
            btype == (At(data, pos) \div 2) % 4
            len == u16_from_le_bytes(At(data, pos + 1), At(data, pos + 2))
            nlen == u16_from_le_bytes(At(data, pos + 3), At(data, pos + 4))
        IN
        IF btype # 0 \/ len + nlen # 65535 \/ pos + 5 + len > Len(data)
        THEN HwpError("DecompressFailed")
        ELSE
            LET inflated == out \o Slice(data, pos + 5, pos + 5 + len) IN
            IF bfinal = 1 THEN [kind |-> "Ok", bytes |-> inflated]
            ELSE InflateFrom(data, pos + 5 + len, inflated)

decompress(data) == InflateFrom(data, 0, <<>>)

\* read_to_end on a stream of the container: the bytes of the stream.
read_stream_data(stream) == [kind |-> "Ok", bytes |-> stream]

read_and_decompress(stream, compressed) ==
    LET raw == read_stream_data(stream) IN
    IF raw.kind # "Ok" THEN raw
    ELSE IF compressed THEN decompress(raw.bytes)
    ELSE raw

parse_doc_info(records) ==
    IF records = <<>> THEN HwpError("Parse")
    ELSE
        LET first == records[1] IN
        IF first.tag_id # HWPTAG_DOCUMENT_PROPERTIES THEN HwpError("Parse")
        ELSE IF Len(first.data) < 2 THEN HwpError("Parse")
        ELSE [kind |-> "Ok",
              doc_info |-> [section_count |-> u16_from_le_bytes(At(first.data, 0),
                                                                At(first.data, 1))]]

\* ------------------------------------------------------------------------
\* lib.rs: extract_text_from_hwp
\* ------------------------------------------------------------------------

\* hwp_comp is the compound file: a function from the paths of the streams it
\* holds to their bytes.  hwp_opened lists the paths given to open_stream so
\* far, whether or not the stream exists.

StreamNotFound(name) == [kind |-> "StreamNotFound", name |-> name]

\* The error of a failed step, as the ? operator passes it on.
Propagate(r) == HwpError(r.kind)

SectionStreamNameMutant(storage, i) == "/" \o storage \o "/Section" \o ToString(i + 1)
SectionStreamName(storage, i) == "/" \o storage \o "/Section" \o ToString(i)

Storage(header) == IF header.distribution THEN "ViewText" ELSE "BodyText"

Finish(result) ==
    /\ hwp_result' = result
    /\ hwp_pc' = "Done"

\* let header = { open_stream("/FileHeader") ...; FileHeader::from_reader(..)? }
OpenFileHeader ==
    /\ hwp_pc = "FileHeader"
    /\ hwp_opened' = Append(hwp_opened, "/FileHeader")
    /\ IF "/FileHeader" \notin DOMAIN hwp_comp
       THEN Finish(StreamNotFound("FileHeader")) /\ UNCHANGED hwp_header
       ELSE LET r == from_reader(hwp_comp["/FileHeader"]) IN
            IF r.kind # "Ok"
            THEN Finish(r) /\ UNCHANGED hwp_header
            ELSE /\ hwp_header' = r.header
                 /\ hwp_pc' = "DocInfo"
                 /\ UNCHANGED hwp_result
    /\ UNCHANGED <<hwp_comp, hwp_doc_info, hwp_i, hwp_section_raw, hwp_workers,
                   hwp_section_texts>>
    /\ UNCHANGED <<rec_vars, pt_vars, deob_vars, dec_vars, hdr_vars,
                   sec_vars, eq_vars, tbl_vars, cli_vars, xml_vars>>

\* What the block computing doc_info yields on an existing /DocInfo stream.
ReadDocInfo(stream, compressed) ==
    LET data == read_and_decompress(stream, compressed) IN
    IF data.kind # "Ok" THEN Propagate(data)
    ELSE
        LET records == read_records(data.bytes) IN
        IF records.kind # "Ok" THEN Propagate(records)
        ELSE parse_doc_info(records.records)

\* let doc_info = { open_stream("/DocInfo") ...; parse_doc_info(&records)? }
OpenDocInfo ==
    /\ hwp_pc = "DocInfo"
    /\ hwp_opened' = Append(hwp_opened, "/DocInfo")
    /\ IF "/DocInfo" \notin DOMAIN hwp_comp
       THEN Finish(StreamNotFound("DocInfo")) /\ UNCHANGED <<hwp_doc_info, hwp_i>>
       ELSE LET r == ReadDocInfo(hwp_comp["/DocInfo"], hwp_header.compressed) IN
            IF r.kind # "Ok"
            THEN Finish(r) /\ UNCHANGED <<hwp_doc_info, hwp_i>>
            ELSE /\ hwp_doc_info' = r.doc_info
                 /\ hwp_i' = 0
                 /\ hwp_pc' = "Sections"
                 /\ UNCHANGED hwp_result
    /\ UNCHANGED <<hwp_comp, hwp_header, hwp_section_raw, hwp_workers,
                   hwp_section_texts>>
    /\ UNCHANGED <<rec_vars, pt_vars, deob_vars, dec_vars, hdr_vars,
                   sec_vars, eq_vars, tbl_vars, cli_vars, xml_vars>>

\* Phase 1, one turn of the loop over 0..section_count.
ReadSection ==
    /\ hwp_pc = "Sections"
    /\ hwp_i < hwp_doc_info.section_count
    /\ LET stream_name == SectionStreamName(Storage(hwp_header), hwp_i) IN
       /\ hwp_opened' = Append(hwp_opened, stream_name)
       /\ IF stream_name \notin DOMAIN hwp_comp
          THEN UNCHANGED hwp_section_raw
          ELSE hwp_section_raw' =
                   Append(hwp_section_raw,
                          <<hwp_i, read_stream_data(hwp_comp[stream_name]).bytes>>)
    /\ hwp_i' = hwp_i + 1
    /\ UNCHANGED <<hwp_comp, hwp_pc, hwp_header, hwp_doc_info, hwp_workers,
                   hwp_section_texts, hwp_result>>
    /\ UNCHANGED <<rec_vars, pt_vars, deob_vars, dec_vars, hdr_vars,
                   sec_vars, eq_vars, tbl_vars, cli_vars, xml_vars>>

\* Phase 2 begins: section_raw.into_par_iter(), one task for each element.
StartWorkers ==
    /\ hwp_pc = "Sections"
    /\ ~(hwp_i < hwp_doc_info.section_count)
    /\ hwp_workers' = [k \in 1..Len(hwp_section_raw) |-> "waiting"]
    /\ hwp_pc' = "Workers"
    /\ UNCHANGED <<hwp_comp, hwp_opened, hwp_header, hwp_doc_info, hwp_i,
                   hwp_section_raw, hwp_section_texts, hwp_result>>
    /\ UNCHANGED <<rec_vars, pt_vars, deob_vars, dec_vars, hdr_vars,
                   sec_vars, eq_vars, tbl_vars, cli_vars, xml_vars>>

\* The closure given to map.
SectionData(raw, compressed, distribution) ==
    IF distribution THEN
        LET decrypted == decrypt_distribution_stream(raw) IN
        IF decrypted.kind # "Ok" THEN Propagate(decrypted)
        ELSE IF compressed THEN decompress(decrypted.bytes)
        ELSE [kind |-> "Ok", bytes |-> decrypted.bytes]
    ELSE IF compressed THEN decompress(raw)
    ELSE [kind |-> "Ok", bytes |-> raw]

ProcessSectionMutant(item, compressed, distribution) ==
    LET data == SectionData(item[2], compressed, distribution) IN
    IF data.kind # "Ok" THEN [kind |-> "Ok", item |-> <<item[1], <<>>>>]
    ELSE
        LET records == read_records(data.bytes) IN
        IF records.kind # "Ok" THEN Propagate(records)
        ELSE [kind |-> "Ok",
              item |-> <<item[1], extract_section_text(records.records, <<>>)>>]

ProcessSection(item, compressed, distribution) ==
    LET data == SectionData(item[2], compressed, distribution) IN
    IF data.kind # "Ok" THEN data
    ELSE
        LET records == read_records(data.bytes) IN
        IF records.kind # "Ok" THEN Propagate(records)
        ELSE [kind |-> "Ok",
              item |-> <<item[1], extract_section_text(records.records, <<>>)>>]

\* A thread of the pool takes up an element.
WorkerStart(k) ==
    /\ hwp_pc = "Workers"
    /\ hwp_workers[k] = "waiting"
    /\ hwp_workers' = [hwp_workers EXCEPT ![k] = "running"]
    /\ UNCHANGED <<hwp_comp, hwp_pc, hwp_opened, hwp_header, hwp_doc_info, hwp_i,
                   hwp_section_raw, hwp_section_texts, hwp_result>>
    /\ UNCHANGED <<rec_vars, pt_vars, deob_vars, dec_vars, hdr_vars,
                   sec_vars, eq_vars, tbl_vars, cli_vars, xml_vars>>

\* The closure returns; its result joins those handed to collect.  The model
\* keeps the results in the order the tasks finish, which is the least collect
\* can promise about them.
WorkerFinish(k) ==
    /\ hwp_pc = "Workers"
    /\ hwp_workers[k] = "running"
    /\ hwp_workers' = [hwp_workers EXCEPT ![k] = "done"]
    /\ hwp_section_texts' =
           Append(hwp_section_texts,
                  ProcessSection(hwp_section_raw[k], hwp_header.compressed,
                                 hwp_header.distribution))
    /\ UNCHANGED <<hwp_comp, hwp_pc, hwp_opened, hwp_header, hwp_doc_info, hwp_i,
                   hwp_section_raw, hwp_result>>
    /\ UNCHANGED <<rec_vars, pt_vars, deob_vars, dec_vars, hdr_vars,
                   sec_vars, eq_vars, tbl_vars, cli_vars, xml_vars>>

Failed(results) == {n \in 1..Len(results) : results[n].kind # "Ok"}

\* collect::<Result<Vec<_>>>() stops taking up elements once one has failed.
WorkerSkip(k) ==
    /\ hwp_pc = "Workers"
    /\ hwp_workers[k] = "waiting"
    /\ Failed(hwp_section_texts) # {}
    /\ hwp_workers' = [hwp_workers EXCEPT ![k] = "skipped"]
    /\ UNCHANGED <<hwp_comp, hwp_pc, hwp_opened, hwp_header, hwp_doc_info, hwp_i,
                   hwp_section_raw, hwp_section_texts, hwp_result>>
    /\ UNCHANGED <<rec_vars, pt_vars, deob_vars, dec_vars, hdr_vars,
                   sec_vars, eq_vars, tbl_vars, cli_vars, xml_vars>>

\* .collect::<Result<Vec<_>>>()? : one of the errors, or the vector.
Collect ==
    /\ hwp_pc = "Workers"
    /\ \A k \in DOMAIN hwp_workers : hwp_workers[k] \in {"done", "skipped"}
    /\ IF Failed(hwp_section_texts) # {}
       THEN /\ \E n \in Failed(hwp_section_texts) : Finish(hwp_section_texts[n])
            /\ UNCHANGED hwp_section_texts
       ELSE /\ hwp_section_texts' =
                   [n \in 1..Len(hwp_section_texts) |-> hwp_section_texts[n].item]
            /\ hwp_pc' = "Merge"
            /\ UNCHANGED hwp_result
    /\ UNCHANGED <<hwp_comp, hwp_opened, hwp_header, hwp_doc_info, hwp_i,
                   hwp_section_raw, hwp_workers>>
    /\ UNCHANGED <<rec_vars, pt_vars, deob_vars, dec_vars, hdr_vars,
                   sec_vars, eq_vars, tbl_vars, cli_vars, xml_vars>>

\* sort_unstable_by_key(|(i, _)| *i); the keys of the model's vectors differ.
RECURSIVE sort_unstable_by_key(_)
sort_unstable_by_keyMutant(v) == v
sort_unstable_by_key(v) ==
    IF v = <<>> THEN <<>>
    ELSE
        LET least == CHOOSE n \in 1..Len(v) : \A m \in 1..Len(v) : v[n][1] <= v[m][1]
        IN <<v[least]>> \o
           sort_unstable_by_key(SubSeq(v, 1, least - 1) \o SubSeq(v, least + 1, Len(v)))

\* Phase 3.  The sorted vector is consumed by into_iter; hwp_section_texts
\* keeps what collect returned.
Merge ==
    /\ hwp_pc = "Merge"
    /\ LET sorted == sort_unstable_by_key(hwp_section_texts)
           text == FlattenSeq([n \in 1..Len(sorted) |-> sorted[n][2]])
       IN Finish([kind |-> "Ok", text |-> text])
    /\ UNCHANGED <<hwp_comp, hwp_opened, hwp_header, hwp_doc_info, hwp_i,
                   hwp_section_raw, hwp_workers, hwp_section_texts>>
    /\ UNCHANGED <<rec_vars, pt_vars, deob_vars, dec_vars, hdr_vars,
                   sec_vars, eq_vars, tbl_vars, cli_vars, xml_vars>>

\* --- documents -------------------------------------------------------------

\* Whether the properties byte of a document has a flag.
Has(flags, flag) == (flags \div flag) % 2 = 1

\* The bytes of a record list, every size below 4095.
Serialize(records) ==
    FlattenSeq([n \in 1..Len(records) |->
        PackHeader(records[n].tag_id, records[n].level, Len(records[n].data))
            \o records[n].data])

\* Raw deflate: one final stored block.
Stored(data) ==
    <<1, Len(data) % 256, Len(data) \div 256,
      255 - (Len(data) % 256), 255 - (Len(data) \div 256)>> \o data

\* No deflate stream: a block of the reserved type 3.
BadDeflate == <<7, 0, 0, 255, 255>>

\* No record list: a header announcing a body of 4000 bytes, and one byte.
BadRecords == PackHeader(HWPTAG_PARA_TEXT, 1, 4000) \o <<1>>

\* A distribution stream that decrypts to data followed by zero bytes up to a
\* whole number of blocks.  The stand-in cipher is its own inverse.
Encrypted(data) ==
    LET header == HeaderOf(<<1, 128, 127, 255>>, [base |-> 3, step |-> 7])
        meta == deobfuscate(header)
        key_offset == 4 + (At(meta, 0) % 16)
        key == Slice(meta, key_offset, key_offset + 16)
        padded == data \o [n \in 1..((16 - (Len(data) % 16)) % 16) |-> 0]
    IN <<28, 0, 0, 16>> \o header \o ecb_decrypt(key, padded)

Encoded(data, flags) ==
    LET deflated == IF Has(flags, FLAG_COMPRESSED) THEN Stored(data) ELSE data IN
    IF Has(flags, FLAG_DISTRIBUTION) THEN Encrypted(deflated) ELSE deflated

\* A /FileHeader stream of version 5.0.3.0 with the given properties.
FileHeaderStream(flags) ==
    HWP_SIGNATURE \o <<0, 3, 0, 5>> \o <<flags, 0, 0, 0>> \o [n \in 1..216 |-> 0]

\* The largest section_count of a document.
MaxSections == 3

\* The path of the stream of section i < 10 in a storage.
SectionPath(storage, i) ==
    "/" \o storage \o "/Section" \o <<"0", "1", "2", "3", "4", "5", "6", "7", "8", "9">>[i + 1]

\* Section i holds two paragraphs, the letter i times over and a digit.
SectionRecords(i) ==
    << Rec(HWPTAG_PARA_HEADER, 0, <<>>),
       Rec(HWPTAG_PARA_TEXT, 1, Utf16Le([n \in 1..(i + 1) |-> 97 + i])),
       Rec(HWPTAG_PARA_HEADER, 0, <<>>),
       Rec(HWPTAG_PARA_TEXT, 1, Utf16Le(<<48 + i>>)) >>

\* The section stream of a kind: "good"; "bad", which fails in the outermost
\* layer of the encoding at odd indices and in the record list at even ones.
SectionStream(kind, i, flags) ==
    IF kind = "good" THEN Encoded(Serialize(SectionRecords(i)), flags)
    ELSE IF i % 2 = 0 THEN Encoded(BadRecords, flags)
    ELSE IF Has(flags, FLAG_DISTRIBUTION) THEN [n \in 1..100 |-> 0]
    ELSE IF Has(flags, FLAG_COMPRESSED) THEN BadDeflate
    ELSE BadRecords

\* The /DocInfo stream of a kind.  DocInfo is compressed like the sections and
\* never encrypted.
DocInfoStream(kind, count, flags) ==
    LET deflate(data) == IF Has(flags, FLAG_COMPRESSED) THEN Stored(data) ELSE data IN
    IF kind = "good"
    THEN deflate(Serialize(<<Rec(HWPTAG_DOCUMENT_PROPERTIES, 0,
                                 <<count % 256, count \div 256, 1, 0>>),
                             Rec(HWPTAG_BEGIN + 1, 0, <<0, 0>>)>>))
    ELSE IF kind = "empty" THEN deflate(<<>>)
    ELSE IF kind = "wrong_tag"
    THEN deflate(Serialize(<<Rec(HWPTAG_BEGIN + 1, 0, <<count, 0>>)>>))
    ELSE IF kind = "short" THEN deflate(Serialize(<<Rec(HWPTAG_DOCUMENT_PROPERTIES, 0, <<1>>)>>))
    ELSE IF kind = "bad_records" THEN deflate(BadRecords)
    ELSE BadDeflate

DocInfoKinds == {"good", "absent", "empty", "wrong_tag", "short", "bad_records", "bad_deflate"}

SectionKinds == {"good", "absent", "bad"}

RECURSIVE Streams(_)
Streams(entries) ==
    IF entries = <<>> THEN <<>>
    ELSE (Head(entries)[1] :> Head(entries)[2]) @@ Streams(Tail(entries))

\* The compound file of a document: header is "absent", "bad_signature" or
\* "good", with the properties flags; layout gives the kind of every section
\* stream from 0 on.
CompoundFile(header, flags, docinfo, count, layout) ==
    LET indices == {n \in 1..Len(layout) : layout[n] # "absent"}
        section(n) == <<SectionPath(IF Has(flags, FLAG_DISTRIBUTION)
                                    THEN "ViewText" ELSE "BodyText", n - 1),
                        SectionStream(layout[n], n - 1, flags)>>
        RECURSIVE Sections(_)
        Sections(n) == IF n > Len(layout) THEN <<>>
                       ELSE (IF n \in indices THEN <<section(n)>> ELSE <<>>) \o Sections(n + 1)
    IN Streams(
        (IF header = "absent" THEN <<>>
         ELSE IF header = "bad_signature"
         THEN << <<"/FileHeader", [n \in 1..256 |-> 0]>> >>
         ELSE << <<"/FileHeader", FileHeaderStream(flags)>> >>)
        \o (IF docinfo = "absent" THEN <<>>
            ELSE << <<"/DocInfo", DocInfoStream(docinfo, count, flags)>> >>)
        \o Sections(1))

Layouts == [1..MaxSections -> SectionKinds]

\* Documents: every layout of sections under every section_count, plain and
\* compressed; distribution documents of some layouts; documents whose
\* /FileHeader or /DocInfo is missing or unusable.
InitPipeline ==
    /\ RecIdle /\ PtIdle /\ DeobIdle /\ DecIdle /\ HdrIdle
    /\ SecIdle /\ EqIdle /\ TblIdle /\ CliIdle /\ XmlIdle
    /\ hwp_comp \in
          {CompoundFile("good", flags, "good", count, layout) :
               flags \in {0, FLAG_COMPRESSED}, count \in 0..MaxSections, layout \in Layouts}
          \cup {CompoundFile("good", flags, "good", MaxSections - 1, layout) :
               flags \in {FLAG_DISTRIBUTION, FLAG_DISTRIBUTION + FLAG_COMPRESSED},
               layout \in {l \in Layouts :
                              /\ l[MaxSections] = "good"
                              /\ Cardinality({n \in 1..MaxSections : l[n] # "good"}) <= 1}}
          \cup {CompoundFile(header, 0, docinfo, 1, [n \in 1..MaxSections |-> "good"]) :
               header \in {"absent", "bad_signature"}, docinfo \in {"good", "absent"}}
          \cup {CompoundFile("good", flags, docinfo, 1, [n \in 1..MaxSections |-> "good"]) :
               flags \in {2, 3, 6, 7}, docinfo \in {"good", "absent"}}
          \cup {CompoundFile("good", flags, docinfo, 1, [n \in 1..MaxSections |-> "good"]) :
               flags \in {0, FLAG_COMPRESSED}, docinfo \in DocInfoKinds}
    /\ hwp_pc = "FileHeader"
    /\ hwp_opened = <<>>
    /\ hwp_header = Idle
    /\ hwp_doc_info = Idle
    /\ hwp_i = 0
    /\ hwp_section_raw = <<>>
    /\ hwp_workers = <<>>
    /\ hwp_section_texts = <<>>
    /\ hwp_result = Idle

NextPipeline ==
    \/ OpenFileHeader
    \/ OpenDocInfo
    \/ ReadSection
    \/ StartWorkers
    \/ \E k \in DOMAIN hwp_workers : WorkerStart(k)
    \/ \E k \in DOMAIN hwp_workers : WorkerFinish(k)
    \/ \E k \in DOMAIN hwp_workers : WorkerSkip(k)
    \/ Collect
    \/ Merge

SpecPipeline == InitPipeline /\ [][NextPipeline]_vars

\* --- the pipeline, as specified --------------------------------------------

\* The document has a /FileHeader stream that carries the magic and at least
\* the properties word, with bit 1 of the properties set.
PasswordDocument ==
    /\ "/FileHeader" \in DOMAIN hwp_comp
    /\ Len(hwp_comp["/FileHeader"]) >= 40
    /\ SubSeq(hwp_comp["/FileHeader"], 1, 32) = Magic
    /\ (hwp_comp["/FileHeader"][37] \div 2) % 2 = 1

\* C11: when the FileHeader has the password flag set, the extraction fails
\* with PasswordProtected before any stream other than /FileHeader is opened:
\* at every point of the run the streams asked of the container are none or
\* /FileHeader alone, once /FileHeader has been asked for the run is over with
\* PasswordProtected, and neither doc_info nor any section data was ever read.
C11_PasswordStops ==
    PasswordDocument =>
        /\ hwp_opened \in {<<>>, <<"/FileHeader">>}
        /\ hwp_opened = <<"/FileHeader">> =>
               hwp_pc = "Done" /\ hwp_result = [kind |-> "PasswordProtected"]
        /\ hwp_opened = <<>> => hwp_pc = "FileHeader" /\ hwp_result = Idle
        /\ hwp_doc_info = Idle
        /\ hwp_section_raw = <<>>

\* A finished run on a compressed distribution document with a password whose
\* /DocInfo and section streams exist.
C11_Witness ==
    /\ PasswordDocument
    /\ hwp_comp["/FileHeader"][37] = 7
    /\ {"/DocInfo", "/ViewText/Section0"} \subseteq DOMAIN hwp_comp
    /\ hwp_pc = "Done"
    /\ hwp_result = [kind |-> "PasswordProtected"]

\* The properties byte of a document with a /FileHeader stream.
Properties == hwp_comp["/FileHeader"][37]

\* The path of section i in the storage the properties select.
PathOf(i) == SectionPath(IF (Properties \div 4) % 2 = 1 THEN "ViewText" ELSE "BodyText", i)

\* The sections the document holds among those DocInfo counts, ascending.
RECURSIVE PresentFrom(_)
PresentFrom(i) ==
    IF i >= hwp_doc_info.section_count THEN <<>>
    ELSE (IF PathOf(i) \in DOMAIN hwp_comp THEN <<i>> ELSE <<>>) \o PresentFrom(i + 1)

PresentSections == PresentFrom(0)

\* Section i is the well-formed stream of the documents.
Sound(i) == hwp_comp[PathOf(i)] = SectionStream("good", i, Properties)

\* The text of the well-formed section i: the letter i, i + 1 times, and the
\* digit i, a paragraph each.
SectionText(i) == [n \in 1..(i + 1) |-> 97 + i] \o <<10>> \o <<48 + i, 10>>

\* C12: a section stream Section<i>, i < section_count, that cannot be opened
\* is skipped without error, and the result is the concatenation of the texts
\* of the sections that are present (none of them failing); a missing
\* /FileHeader stream, and a missing /DocInfo stream once the header was read,
\* fail the call with StreamNotFound naming that stream.
C12_MissingStreams ==
    hwp_pc = "Done" =>
        /\ "/FileHeader" \notin DOMAIN hwp_comp =>
               hwp_result = [kind |-> "StreamNotFound", name |-> "FileHeader"]
        /\ hwp_header # Idle /\ "/DocInfo" \notin DOMAIN hwp_comp =>
               hwp_result = [kind |-> "StreamNotFound", name |-> "DocInfo"]
        /\ (/\ hwp_doc_info # Idle
            /\ \A n \in 1..Len(PresentSections) : Sound(PresentSections[n])) =>
               hwp_result =
                   [kind |-> "Ok",
                    text |-> FlattenSeq([n \in 1..Len(PresentSections) |->
                                            SectionText(PresentSections[n])])]

\* A compressed document of three sections whose Section1 is missing: the text
\* is that of sections 0 and 2.
C12_Witness ==
    /\ hwp_pc = "Done"
    /\ hwp_doc_info = [section_count |-> 3]
    /\ Properties = 1
    /\ "/BodyText/Section1" \notin DOMAIN hwp_comp
    /\ hwp_opened = <<"/FileHeader", "/DocInfo", "/BodyText/Section0",
                      "/BodyText/Section1", "/BodyText/Section2">>
    /\ hwp_result = [kind |-> "Ok", text |-> <<97, 10, 48, 10, 99, 99, 99, 10, 50, 10>>]

\* The text the worker of section i handed to collect.
CollectedText(i) ==
    hwp_section_texts[CHOOSE n \in 1..Len(hwp_section_texts) :
                          hwp_section_texts[n][1] = i][2]

\* C13: the document text returned is the concatenation of the per-section
\* texts in ascending section index, whatever the order in which the workers
\* started and finished: collect holds one result for every present section,
\* and the text is these results, each once and whole, ordered by index.
C13_AscendingOrder ==
    (hwp_pc = "Done" /\ hwp_result.kind = "Ok") =>
        /\ Len(hwp_section_texts) = Len(PresentSections)
        /\ \A n \in 1..Len(PresentSections) :
               \E m \in 1..Len(hwp_section_texts) :
                   hwp_section_texts[m][1] = PresentSections[n]
        /\ \A m \in 1..Len(hwp_section_texts) :
               hwp_section_texts[m][2] = SectionText(hwp_section_texts[m][1])
        /\ hwp_result.text =
               FlattenSeq([n \in 1..Len(PresentSections) |->
                              CollectedText(PresentSections[n])])

\* Three sections whose workers finished in the order 2, 0, 1.
C13_Witness ==
    /\ hwp_pc = "Done"
    /\ hwp_result =
           [kind |-> "Ok",
            text |-> <<97, 10, 48, 10, 98, 98, 10, 49, 10, 99, 99, 99, 10, 50, 10>>]
    /\ Len(hwp_section_texts) = 3
    /\ <<hwp_section_texts[1][1], hwp_section_texts[2][1], hwp_section_texts[3][1]>>
           = <<2, 0, 1>>

\* The present sections that are not well-formed.
Unsound == {n \in 1..Len(PresentSections) : ~Sound(PresentSections[n])}

\* What fails in the ill-formed section i of the documents: the record list at
\* even indices; at odd ones the decryption of a distribution document, else
\* the decompression of a compressed one, else the record list.
FailureOf(i) ==
    IF i % 2 = 0 THEN "Parse"
    ELSE IF (Properties \div 4) % 2 = 1 THEN "DecryptFailed"
    ELSE IF Properties % 2 = 1 THEN "DecompressFailed"
    ELSE "Parse"

\* C14: if decryption, decompression or record parsing fails for any one
\* present section, the call returns an error and no text at all, whichever
\* other sections succeeded and in whatever order the workers ran: no result
\* is set before the run is over, and the result is then the error of one of
\* the failing sections, never a text.
C14_NoPartialText ==
    (hwp_doc_info # Idle /\ Unsound # {}) =>
        IF hwp_pc = "Done"
        THEN /\ "text" \notin DOMAIN hwp_result
             /\ hwp_result \in {[kind |-> FailureOf(PresentSections[n])] : n \in Unsound}
        ELSE hwp_result = Idle

\* A compressed document of three sections whose Section1 does not inflate:
\* the workers of sections 0 and 2 finished with their texts before the failing
\* one, and the call returns DecompressFailed.
C14_Witness ==
    /\ hwp_pc = "Done"
    /\ hwp_result = [kind |-> "DecompressFailed"]
    /\ Properties = 1
    /\ Len(hwp_section_texts) = 3
    /\ hwp_section_texts[1] = [kind |-> "Ok", item |-> <<2, SectionText(2)>>]
    /\ hwp_section_texts[2] = [kind |-> "Ok", item |-> <<0, SectionText(0)>>]
    /\ hwp_section_texts[3] = [kind |-> "DecompressFailed"]

\* ------------------------------------------------------------------------
\* Further properties of the cryptosystem
\* ------------------------------------------------------------------------

\* C28: deobfuscate is an involution: every application leaves the seed bytes
\* 0-3 as they were, and after an even number of applications to a 256-byte
\* header the header is the original one again.
C28_Involution ==
    /\ SubSeq(deob_data, 1, 4) = SubSeq(deob_orig, 1, 4)
    /\ deob_calls % 2 = 0 => deob_data = deob_orig

\* Two applications to a header that one application changes in every byte
\* from index 4 to 15.
C28_Witness ==
    /\ deob_calls = 2
    /\ deob_data = deob_orig
    /\ deob_orig = HeaderOf(<<1, 128, 0, 255>>, [base |-> 3, step |-> 7])
    /\ \A i \in 4..15 : At(deobfuscate(deob_orig), i) # At(deob_orig, i)

\* C29: in decrypt_distribution_stream the key offset 4 + (H[0] & 0x0F) lies
\* in 4..19, so that the 16 key bytes lie within H[4..35] and the test
\* key_offset + 16 > 256 never holds: no input ends in the key-out-of-range
\* DecryptFailed.  H[0], on which the offset depends, is the byte at index 4 of
\* the stream, which deobfuscation leaves unchanged.
C29_KeyOffsetInRange ==
    /\ dec_result # DecryptFailed("Key offset out of range")
    /\ Len(dec_data) >= 260 =>
           LET meta == deobfuscate(DistributionMeta(dec_data)) IN
           /\ KeyOffset(meta) \in 4..19
           /\ KeyOffset(meta) + 16 <= 36
           /\ At(meta, 0) = At(dec_data, 4)
           /\ KeyOffset(meta) = 4 + (At(dec_data, 4) % 16)

\* A stream decrypted whose H[0] is 255: the offset is 19, the greatest.
C29_Witness ==
    /\ dec_result.kind = "Ok"
    /\ dec_result.aes_called
    /\ At(dec_data, 4) = 255
    /\ KeyOffset(deobfuscate(DistributionMeta(dec_data))) = 19

\* ------------------------------------------------------------------------
\* Further properties of the PARA_TEXT scanners
\* ------------------------------------------------------------------------

\* The body without its last byte.
WithoutLastByte(data) == SubSeq(data, 1, Len(data) - 1)

\* The last unit the scan reads is a control of 16 bytes with fewer than 14
\* bytes after it.
TruncatedControl(data, codes) ==
    LET trace == ScanPositions(data) IN
    /\ Len(trace) >= 2
    /\ UnitAt(data, trace[Len(trace) - 1]) \in codes
    /\ Len(data) - (trace[Len(trace) - 1] + 2) < 14

\* C24: for a PARA_TEXT body of any length the scan position never exceeds the
\* body length, every unit read lies within the body, and the position grows
\* with every turn of the loop, which so ends; a control whose payload is cut
\* short skips the bytes that remain, to the end of the body, and still takes
\* effect (an extend control closes a segment and is listed, code 9 gives a
\* tab); a single trailing odd byte is ignored.
C24_ScanWithinBody ==
    LET trace == ScanPositions(pt_data)
        len == Len(pt_data)
    IN
    /\ \A n \in 1..Len(trace) : trace[n] <= len
    /\ \A n \in 1..(Len(trace) - 1) : trace[n] + 1 < len /\ trace[n] < trace[n + 1]
    /\ trace[Len(trace)] \in {len - 1, len}
    /\ TruncatedControl(pt_data, ExtendMarkerCodes \cup InlineMarkerCodes) =>
           trace[Len(trace)] = len
    /\ pt_segments.kind = "Returned" =>
           LET segs == pt_segments.value IN
           /\ TruncatedControl(pt_data, ExtendMarkerCodes) =>
                  /\ Len(segs) >= 2
                  /\ segs[Len(segs) - 1].has_control_after
                  /\ segs[Len(segs)].text = <<>>
           /\ TruncatedControl(pt_data, {9}) =>
                  /\ segs[Len(segs)].text # <<>>
                  /\ segs[Len(segs)].text[Len(segs[Len(segs)].text)] = 9
           /\ len % 2 = 1 => segs = extract_text_segments(WithoutLastByte(pt_data))
    /\ pt_text.kind = "Returned" =>
           LET r == pt_text.value IN
           /\ TruncatedControl(pt_data, ExtendMarkerCodes) =>
                  /\ r.controls # <<>>
                  /\ r.controls[Len(r.controls)]
                         = UnitAt(pt_data, trace[Len(trace) - 1])
           /\ TruncatedControl(pt_data, {9}) =>
                  r.text # <<>> /\ r.text[Len(r.text)] = 9
           /\ len % 2 = 1 => r = extract_text(WithoutLastByte(pt_data))

\* "A", an extend marker and three bytes of its payload: a body of odd length
\* that ends inside the payload, scanned at 0, 2 and 7.
C24_Witness ==
    /\ pt_data = <<65, 0, 11, 0, 65, 0, 65>>
    /\ ScanPositions(pt_data) = <<0, 2, 7>>
    /\ pt_segments = Returned(<<[text |-> <<65>>, has_control_after |-> TRUE],
                                [text |-> <<>>, has_control_after |-> FALSE]>>)
    /\ pt_text = Returned([text |-> <<65>>, controls |-> <<11>>])

\* ------------------------------------------------------------------------
\* The tree walker on arbitrary record sequences
\* ------------------------------------------------------------------------

\* Record sequences that need not be well-formed: one of a few beginnings (none,
\* a paragraph, a paragraph with a footnote, a paragraph with a 1x1 table, a
\* paragraph with a 1x2 table whose second cell holds a deeper paragraph with an
\* equation) followed by any records of the kinds the walker tells apart, at
\* any of the levels given.  The record at index n (from 1) has the text 'a' + n if it is
\* a PARA_TEXT and the script 'A' + n if it is an EQEDIT.

WalkKinds ==
    {[tag |-> "PARA_HEADER", level |-> lv] : lv \in 0..2}
    \cup {[tag |-> "PARA_TEXT", level |-> lv] : lv \in {1, 3}}
    \cup {[tag |-> "footnote", level |-> 1]}
    \cup {[tag |-> "table", level |-> 1]}
    \cup {[tag |-> "LIST_HEADER", level |-> 2]}
    \cup {[tag |-> "EQEDIT", level |-> lv] : lv \in 1..3}

WalkRecord(kind, n) ==
    CASE kind.tag = "PARA_HEADER" -> Rec(HWPTAG_PARA_HEADER, kind.level, <<>>)
      [] kind.tag = "PARA_TEXT" -> Rec(HWPTAG_PARA_TEXT, kind.level, Utf16Le(<<97 + n>>))
      [] kind.tag = "footnote" ->
            Rec(HWPTAG_CTRL_HEADER, kind.level, CtrlBody(<<102, 110, 32, 32>>))
      [] kind.tag = "table" ->
            Rec(HWPTAG_CTRL_HEADER, kind.level, CtrlBody(<<116, 98, 108, 32>>))
      [] kind.tag = "TABLE" -> Rec(HWPTAG_TABLE, kind.level, TableBody(1, 1))
      [] kind.tag = "TABLE of two" -> Rec(HWPTAG_TABLE, kind.level, TableBody(1, 2))
      [] kind.tag = "LIST_HEADER" -> Rec(HWPTAG_LIST_HEADER, kind.level, CellBody(0, 0))
      [] kind.tag = "LIST_HEADER of column 1" ->
            Rec(HWPTAG_LIST_HEADER, kind.level, CellBody(1, 0))
      [] kind.tag = "EQEDIT" -> Rec(HWPTAG_EQEDIT, kind.level, EqBody(<<65 + n>>))

WalkPrefixes ==
    { <<>>,
      << [tag |-> "PARA_HEADER", level |-> 0], [tag |-> "PARA_TEXT", level |-> 1] >>,
      << [tag |-> "PARA_HEADER", level |-> 0], [tag |-> "PARA_TEXT", level |-> 1],
         [tag |-> "footnote", level |-> 1], [tag |-> "LIST_HEADER", level |-> 2],
         [tag |-> "PARA_HEADER", level |-> 2], [tag |-> "PARA_TEXT", level |-> 3] >>,
      << [tag |-> "PARA_HEADER", level |-> 0], [tag |-> "PARA_TEXT", level |-> 1],
         [tag |-> "table", level |-> 1], [tag |-> "TABLE", level |-> 2],
         [tag |-> "LIST_HEADER", level |-> 2], [tag |-> "PARA_HEADER", level |-> 2],
         [tag |-> "PARA_TEXT", level |-> 3] >>,
      << [tag |-> "PARA_HEADER", level |-> 0], [tag |-> "PARA_TEXT", level |-> 1],
         [tag |-> "table", level |-> 1], [tag |-> "TABLE of two", level |-> 2],
         [tag |-> "LIST_HEADER", level |-> 2], [tag |-> "PARA_HEADER", level |-> 2],
         [tag |-> "PARA_TEXT", level |-> 3],
         [tag |-> "LIST_HEADER of column 1", level |-> 2],
         [tag |-> "PARA_HEADER", level |-> 3], [tag |-> "PARA_TEXT", level |-> 4],
         [tag |-> "EQEDIT", level |-> 4] >> }

\* The largest number of records after the beginning.
MaxWalk == 3

InitWalk ==
    /\ \E prefix \in WalkPrefixes, kinds \in SeqsUpTo(WalkKinds, MaxWalk) :
          sec_records = [n \in 1..(Len(prefix) + Len(kinds)) |->
                            WalkRecord((prefix \o kinds)[n], n)]
    /\ sec_text = NotCalled
    /\ RecIdle /\ PtIdle /\ DeobIdle /\ DecIdle /\ HdrIdle
    /\ EqIdle /\ TblIdle /\ HwpIdle /\ CliIdle /\ XmlIdle

SpecWalk == InitWalk /\ [][NextSection]_vars

\* The indices (from 0) of the PARA_HEADERs of a record sequence.
ParaHeaders(records) == {p \in 0..(Len(records) - 1) : At(records, p).tag_id = 66}

\* The smallest index q > p that is the end of the records, or whose record has
\* a level below L, or is a PARA_HEADER of level L.
ParaEnd(records, p, L) ==
    LET stops == {q \in (p + 1)..(Len(records) - 1) :
                     \/ At(records, q).level < L
                     \/ At(records, q).tag_id = 66 /\ At(records, q).level = L}
    IN IF stops = {} THEN Len(records)
       ELSE CHOOSE q \in stops : \A h \in stops : q <= h

\* What the scan of the paragraph at p finds.
ScanOf(records, p) ==
    ScanPara(records, p + 1, At(records, p).level,
             [para_text_data |-> None, all_ctrl_subtrees |-> <<>>,
              eqedit_texts |-> <<>>, scan |-> p + 1])

\* C22: after extract_para consumes the PARA_HEADER at index p with level L,
\* the cursor rests at the smallest index q > p such that q is the end of the
\* records, or record q has level < L, or record q is a PARA_HEADER of level L;
\* the paragraph's text is the same when the records from q on are taken away,
\* and every CTRL_HEADER sub-tree the scan skips starts after p and ends at or
\* before q.
C22_ParagraphEnd ==
    sec_text.kind = "Returned" =>
    \A p \in ParaHeaders(sec_records) :
        LET L == At(sec_records, p).level
            q == ParaEnd(sec_records, p, L)
            para == extract_para(sec_records, p, L, <<>>)
            subtrees == ScanOf(sec_records, p).all_ctrl_subtrees
        IN
        /\ para.pos = q
        /\ para.text = extract_para(SubSeq(sec_records, 1, q), p, L, <<>>).text
        /\ \A n \in 1..Len(subtrees) :
               /\ p < subtrees[n][1] /\ subtrees[n][1] < subtrees[n][2]
               /\ subtrees[n][2] <= q
               /\ \A i \in (subtrees[n][1] + 1)..(subtrees[n][2] - 1) :
                      At(sec_records, i).level > L + 1

\* A paragraph with a footnote, whose sub-tree is the records 2..5, followed by
\* a second paragraph at index 6, walked to the end.
C22_Witness ==
    /\ sec_text.kind = "Returned"
    /\ Len(sec_records) = 8
    /\ ScanOf(sec_records, 0).all_ctrl_subtrees = << <<2, 6>> >>
    /\ At(sec_records, 6).tag_id = 66 /\ At(sec_records, 6).level = 0
    /\ extract_para(sec_records, 0, 0, <<>>).pos = 6
    /\ extract_para(sec_records, 6, 0, <<>>).pos = 8

\* The text of the n-th cell when the records from the next cell's LIST_HEADER
\* on are taken away.
OwnCellText(records, n) ==
    LET heads == CellHeaders(records)
        stop == IF n < Len(heads) THEN heads[n + 1] ELSE Len(records) + 1
    IN CellText(SubSeq(records, 1, stop - 1), n)

\* C23: in a table sub-tree the text extracted for a cell is bounded by the
\* cell's extent: it depends only on the records from the cell's LIST_HEADER up
\* to, but not including, the next peer LIST_HEADER or the end of the sub-tree,
\* so that it is the text extracted when the records from there on are absent.
C23_CellBounded ==
    (sec_text.kind = "Returned" /\ ProperTable(sec_records)) =>
        \A n \in 1..Len(CellHeaders(sec_records)) :
            CellText(sec_records, n) = OwnCellText(sec_records, n)

\* The EQEDITs the paragraph that starts at s collects: those within it that
\* lie in none of its sub-trees, in record order.
OwnEquations(records, s) ==
    LET subs == ParaSubtrees(records, s) IN
    Ascending({j \in (s + 1)..(ParaStop(records, s) - 1) :
                  /\ records[j].tag_id = 88
                  /\ \A n \in 1..Len(subs) : ~(subs[n] < j /\ j < SubtreeStop(records, subs[n]))})

\* What the level-0 paragraph that starts at s emits: the segments of its last
\* PARA_TEXT of level 1, the i-th sub-tree after the i-th segment that an extend
\* marker ends, the sub-trees left over, the scripts of its own equations, a
\* newline.  A paragraph without PARA_TEXT emits two newlines and nothing else,
\* or, with_subtrees, the text of its sub-trees and equations, if there is any,
\* as a paragraph of an empty PARA_TEXT does.
WalkedPara(records, s, with_subtrees) ==
    LET texts == Ascending(ParaTexts(records, s))
        subs == ParaSubtrees(records, s)
        m == Len(subs)
        eqs == OwnEquations(records, s)
        segments == IF texts = <<>> THEN <<[text |-> <<>>, has_control_after |-> FALSE]>>
                    ELSE extract_text_segments(records[texts[Len(texts)]].data)
        k == Len(segments) - 1
        body == FlattenSeq([i \in 1..(k + 1) |->
                    segments[i].text
                    \o (IF i <= k /\ i <= m THEN SubtreeOutput(records, subs[i]) ELSE <<>>)])
                \o (IF m > k
                    THEN FlattenSeq([i \in 1..(m - k) |-> SubtreeOutput(records, subs[k + i])])
                    ELSE <<>>)
                \o FlattenSeq([i \in 1..Len(eqs) |-> EqeditLine(records[eqs[i]].data)])
    IN
    IF texts = <<>> /\ (~with_subtrees \/ body = <<>>) THEN <<10, 10>>
    ELSE body \o <<10>>

\* What the section emits: its level-0 paragraphs, in order.
WalkedSection(records, with_subtrees) ==
    LET starts == Ascending(ParaStarts(records)) IN
    FlattenSeq([n \in 1..Len(starts) |-> WalkedPara(records, starts[n], with_subtrees)])

\* C25 as claimed: every CTRL_HEADER sub-tree at level+1 of a paragraph is
\* emitted exactly once in its document position whether or not the paragraph
\* has a PARA_TEXT: a paragraph without PARA_TEXT emits its sub-trees and its
\* collected equation scripts.
C25_SubtreesWithoutText ==
    sec_text.kind = "Returned" => sec_text.value = WalkedSection(sec_records, TRUE)

\* C25 as amended: every CTRL_HEADER sub-tree at level+1 of a paragraph that
\* has a PARA_TEXT is emitted exactly once in its document position; a
\* paragraph without PARA_TEXT emits two newlines and neither its sub-trees nor
\* its equation scripts.
C25_SubtreesWithText ==
    sec_text.kind = "Returned" => sec_text.value = WalkedSection(sec_records, FALSE)

\* A paragraph "c" with the footnote "g", then a paragraph without PARA_TEXT
\* that has a footnote with the equation "J": "cg\n\n" and "\n\n".
C25_Witness ==
    /\ sec_text.kind = "Returned"
    /\ Len(sec_records) = 9
    /\ ParaStarts(sec_records) = {1, 7}
    /\ ParaTexts(sec_records, 7) = {}
    /\ ParaSubtrees(sec_records, 1) = <<3>>
    /\ ParaSubtrees(sec_records, 7) = <<8>>
    /\ SubtreeOutput(sec_records, 8) = <<74, 10>>
    /\ sec_text.value = <<99, 103, 10, 10, 10, 10>>

\* The EQEDIT records (from 1) that lie inside a paragraph, deeper than its
\* PARA_HEADER, and whose script is not empty.
ParaEqedits(records) ==
    {j \in 1..Len(records) :
        /\ records[j].tag_id = 88
        /\ EqeditLine(records[j].data) # <<>>
        /\ \E p \in ParaHeaders(records) :
              /\ p + 1 < j
              /\ j - 1 < ParaEnd(records, p, At(records, p).level)
              /\ At(records, p).level < records[j].level}

\* How often a string occurs in a text.
Occurrences(text, str) ==
    Cardinality({i \in 1..(Len(text) - Len(str) + 1) :
                    SubSeq(text, i, i + Len(str) - 1) = str})

\* C26: each EQEDIT record that lies inside a paragraph and has a script that
\* is not empty has its script emitted exactly once in the section text, never
\* twice and never not at all.  (In a table cell the newline after the script
\* is rendered as a space, so the script is what is counted.)
C26_EquationsOnce ==
    sec_text.kind = "Returned" =>
        \A j \in ParaEqedits(sec_records) :
            Occurrences(sec_text.value, extract_eqedit_script(sec_records[j].data).value) = 1

\* The PARA_HEADERs (from 0) that the walk of the paragraph at p descends to:
\* those that follow a LIST_HEADER inside one of the paragraph's sub-trees, each
\* with the end of that sub-tree.
Descents(records, p) ==
    LET subs == ScanOf(records, p).all_ctrl_subtrees IN
    UNION {{[para |-> i + 1, end |-> subs[n][2]] :
               i \in {i \in (subs[n][1] + 1)..(subs[n][2] - 2) :
                         /\ At(records, i).tag_id = 72
                         /\ At(records, i + 1).tag_id = 66}} :
           n \in 1..Len(subs)}

\* C27: every extract_para call advances the cursor by at least one record,
\* also after the clamp to the bound of a bounded list; a bounded list started
\* at a PARA_HEADER ends after it and at or before its bound; the top-level
\* walk ends with the cursor equal to the number of records; and every descent
\* from a paragraph of level L through a sub-tree to an inner paragraph list
\* enters a level greater than L.
C27_CursorAndLevel ==
    sec_text.kind = "Returned" =>
        /\ extract_para_list(sec_records, 0, 0, <<>>).pos = Len(sec_records)
        /\ \A p \in ParaHeaders(sec_records) :
              LET L == At(sec_records, p).level IN
              /\ extract_para(sec_records, p, L, <<>>).pos > p
              /\ \A d \in Descents(sec_records, p) :
                    LET inner == At(sec_records, d.para).level
                        one == extract_para(sec_records, d.para, inner, <<>>).pos
                        all == extract_para_list_bounded(sec_records, d.para, inner,
                                                         d.end, <<>>).pos
                    IN /\ inner > L
                       /\ (IF one > d.end THEN d.end ELSE one) > d.para
                       /\ all > d.para
                       /\ all <= d.end

\* C27, its case: the table of two cells whose first paragraph (index 5, level
\* 2) scans to the end of the 11 records, past the end of its cell at 7, so
\* that the list of the cell clamps the cursor to 7; the second cell descends
\* to level 3; the top-level walk ends at 11.
C27_Witness ==
    /\ sec_text.kind = "Returned"
    /\ Len(sec_records) = 11
    /\ At(sec_records, 8).tag_id = 66
    /\ At(sec_records, 8).level = 3
    /\ [para |-> 8, end |-> 11] \in Descents(sec_records, 0)
    /\ extract_para(sec_records, 5, 2, <<>>).pos = 11
    /\ extract_para_list_bounded(sec_records, 5, 2, 7, <<>>).pos = 7
    /\ extract_para_list(sec_records, 0, 0, <<>>).pos = 11

\* ------------------------------------------------------------------------
\* The command-line program (main.rs)
\* ------------------------------------------------------------------------

\* process::exit(1) after an eprintln!("Error...").
ExitWithError ==
    /\ cli_stderr' = Append(cli_stderr, "Error")
    /\ cli_exit' = [kind |-> "Exited", code |-> 1]
    /\ cli_pc' = "Exited"

\* return from main: exit status 0.
ReturnFromMain ==
    /\ cli_exit' = [kind |-> "Exited", code |-> 0]
    /\ cli_pc' = "Exited"

\* process_batch(files, ..) or process_batch_with_structure(files, ..) is
\* entered: the counters are 0 and par_iter has every item to run.
EnterBatch(files, function) ==
    /\ cli_files' = files
    /\ cli_todo' = 1..Len(files)
    /\ cli_success' = 0
    /\ cli_failed' = 0
    /\ cli_pc' = function

\* if args.list_streams { match list_streams(..) { Ok => print, Err => exit(1) }; return }
ListStreams ==
    /\ cli_pc = "main"
    /\ cli_args.list_streams
    /\ IF cli_args.streams_listed
       THEN ReturnFromMain /\ UNCHANGED cli_stderr
       ELSE ExitWithError
    /\ UNCHANGED <<cli_args, cli_outcomes, cli_files, cli_todo, cli_success, cli_failed>>
    /\ UNCHANGED <<rec_vars, pt_vars, deob_vars, dec_vars, hdr_vars,
                   sec_vars, eq_vars, tbl_vars, hwp_vars, xml_vars>>

\* Single file without -o: extract_text_from_file, print!, or exit(1).
SingleFileToStdout ==
    /\ cli_pc = "main"
    /\ ~cli_args.list_streams
    /\ cli_args.input = "file"
    /\ ~cli_args.output
    /\ IF cli_outcomes[1] = "extract_err"
       THEN ExitWithError
       ELSE ReturnFromMain /\ UNCHANGED cli_stderr
    /\ UNCHANGED <<cli_args, cli_outcomes, cli_files, cli_todo, cli_success, cli_failed>>
    /\ UNCHANGED <<rec_vars, pt_vars, deob_vars, dec_vars, hdr_vars,
                   sec_vars, eq_vars, tbl_vars, hwp_vars, xml_vars>>

\* Single file with -o: create_dir_all or exit(1), then
\* process_batch(&[args.input.clone()], out_dir).
SingleFileToDir ==
    /\ cli_pc = "main"
    /\ ~cli_args.list_streams
    /\ cli_args.input = "file"
    /\ cli_args.output
    /\ IF ~cli_args.dir_created
       THEN ExitWithError /\ UNCHANGED <<cli_files, cli_todo, cli_success, cli_failed>>
       ELSE EnterBatch(cli_outcomes, "process_batch") /\ UNCHANGED <<cli_stderr, cli_exit>>
    /\ UNCHANGED <<cli_args, cli_outcomes>>
    /\ UNCHANGED <<rec_vars, pt_vars, deob_vars, dec_vars, hdr_vars,
                   sec_vars, eq_vars, tbl_vars, hwp_vars, xml_vars>>

\* if !args.input.is_dir() { eprintln!(..); exit(1) }
NotFileOrDirectory ==
    /\ cli_pc = "main"
    /\ ~cli_args.list_streams
    /\ cli_args.input = "missing"
    /\ ExitWithError
    /\ UNCHANGED <<cli_args, cli_outcomes, cli_files, cli_todo, cli_success, cli_failed>>
    /\ UNCHANGED <<rec_vars, pt_vars, deob_vars, dec_vars, hdr_vars,
                   sec_vars, eq_vars, tbl_vars, hwp_vars, xml_vars>>

\* Directory without -o: exit(1).
OutputRequired ==
    /\ cli_pc = "main"
    /\ ~cli_args.list_streams
    /\ cli_args.input = "dir"
    /\ ~cli_args.output
    /\ ExitWithError
    /\ UNCHANGED <<cli_args, cli_outcomes, cli_files, cli_todo, cli_success, cli_failed>>
    /\ UNCHANGED <<rec_vars, pt_vars, deob_vars, dec_vars, hdr_vars,
                   sec_vars, eq_vars, tbl_vars, hwp_vars, xml_vars>>

\* collect_hwp_files(&args.input, ..): the files found, or, when read_dir
\* fails, a line on stderr and no files.
collect_hwp_files ==
    IF cli_args.dir_read THEN [files |-> cli_outcomes, stderr |-> <<>>]
    ELSE [files |-> <<>>, stderr |-> <<"Error">>]

\* Directory with -o: create_dir_all or exit(1); collect_hwp_files; return if
\* there are none; else the batch, with the directory structure if recursive.
Directory ==
    /\ cli_pc = "main"
    /\ ~cli_args.list_streams
    /\ cli_args.input = "dir"
    /\ cli_args.output
    /\ IF ~cli_args.dir_created
       THEN ExitWithError /\ UNCHANGED <<cli_files, cli_todo, cli_success, cli_failed>>
       ELSE LET files == collect_hwp_files IN
            /\ cli_stderr' = cli_stderr \o files.stderr \o <<"Found">>
            /\ IF files.files = <<>>
               THEN /\ ReturnFromMain
                    /\ UNCHANGED <<cli_files, cli_todo, cli_success, cli_failed>>
               ELSE /\ EnterBatch(files.files,
                                  IF cli_args.recursive THEN "process_batch_with_structure"
                                  ELSE "process_batch")
                    /\ UNCHANGED cli_exit
    /\ UNCHANGED <<cli_args, cli_outcomes>>
    /\ UNCHANGED <<rec_vars, pt_vars, deob_vars, dec_vars, hdr_vars,
                   sec_vars, eq_vars, tbl_vars, hwp_vars, xml_vars>>

\* The closure of files.par_iter().for_each in process_batch and in
\* process_batch_with_structure, on the item i: Ok and written, Ok and not
\* written (WRITE_ERR), or Err (EXTRACT_ERR).
BatchItem(i) ==
    /\ cli_pc \in {"process_batch", "process_batch_with_structure"}
    /\ i \in cli_todo
    /\ cli_todo' = cli_todo \ {i}
    /\ CASE cli_files[i] = "ok" ->
                /\ cli_success' = cli_success + 1
                /\ UNCHANGED <<cli_failed, cli_stderr>>
         [] cli_files[i] = "write_err" ->
                /\ cli_stderr' = Append(cli_stderr, "WRITE_ERR")
                /\ cli_failed' = cli_failed + 1
                /\ UNCHANGED cli_success
         [] cli_files[i] = "extract_err" ->
                /\ cli_stderr' = Append(cli_stderr, "EXTRACT_ERR")
                /\ cli_failed' = cli_failed + 1
                /\ UNCHANGED cli_success
    /\ UNCHANGED <<cli_args, cli_outcomes, cli_pc, cli_files, cli_exit>>
    /\ UNCHANGED <<rec_vars, pt_vars, deob_vars, dec_vars, hdr_vars,
                   sec_vars, eq_vars, tbl_vars, hwp_vars, xml_vars>>

\* After for_each: eprintln!("Done: ..."), the function returns, and main
\* returns after it.
BatchDone ==
    /\ cli_pc \in {"process_batch", "process_batch_with_structure"}
    /\ cli_todo = {}
    /\ cli_stderr' = Append(cli_stderr, "Done")
    /\ ReturnFromMain
    /\ UNCHANGED <<cli_args, cli_outcomes, cli_files, cli_todo, cli_success, cli_failed>>
    /\ UNCHANGED <<rec_vars, pt_vars, deob_vars, dec_vars, hdr_vars,
                   sec_vars, eq_vars, tbl_vars, hwp_vars, xml_vars>>

\* --- the command-line program: inputs -------------------------------------

\* The largest number of files in a directory.
MaxFiles == 3

\* How the extraction and the writing of a file end.
Outcomes == {"ok", "extract_err", "write_err"}

\* The arguments, what the input path is, whether create_dir_all, read_dir and
\* list_streams succeed, and the files with how each of them ends: one file for
\* a file input, those collect_hwp_files finds for a directory.
InitMain ==
    /\ \E input \in {"file", "dir", "missing"},
          output \in BOOLEAN, recursive \in BOOLEAN, list_streams \in BOOLEAN,
          dir_created \in BOOLEAN, dir_read \in BOOLEAN, streams_listed \in BOOLEAN :
          cli_args = [input |-> input, output |-> output, recursive |-> recursive,
                      list_streams |-> list_streams, dir_created |-> dir_created,
                      dir_read |-> dir_read, streams_listed |-> streams_listed]
    /\ cli_outcomes \in SeqsUpTo(Outcomes, MaxFiles)
    /\ cli_args.input = "file" => Len(cli_outcomes) = 1
    /\ cli_args.input = "missing" => cli_outcomes = <<>>
    /\ cli_pc = "main"
    /\ cli_files = <<>> /\ cli_todo = {} /\ cli_success = 0 /\ cli_failed = 0
    /\ cli_stderr = <<>> /\ cli_exit = Idle
    /\ RecIdle /\ PtIdle /\ DeobIdle /\ DecIdle /\ HdrIdle
    /\ SecIdle /\ EqIdle /\ TblIdle /\ HwpIdle /\ XmlIdle

NextMain ==
    \/ ListStreams
    \/ SingleFileToStdout
    \/ SingleFileToDir
    \/ NotFileOrDirectory
    \/ OutputRequired
    \/ Directory
    \/ \E i \in 1..MaxFiles : BatchItem(i)
    \/ BatchDone

SpecMain == InitMain /\ [][NextMain]_vars

\* --- what is claimed of the command-line program ---------------------------

\* An error happened: something failed and was reported.
ErrorReported ==
    \E n \in 1..Len(cli_stderr) : cli_stderr[n] \in {"Error", "EXTRACT_ERR", "WRITE_ERR"}

\* C21: the program exits with status 0 on success and 1 on any error, in
\* every mode; a run in which the extraction or the writing of at least one
\* file fails ends with exit status 1.
C21_ExitStatus ==
    cli_exit.kind = "Exited" =>
        cli_exit.code = (IF ErrorReported THEN 1 ELSE 0)

\* ------------------------------------------------------------------------
\* HWPX section extraction (hwpx.rs)
\* ------------------------------------------------------------------------

\* An event the reader yields is [kind, name] for Start, Empty and End, with
\* the local name of the element, [kind, raw] for Text, with the characters
\* as they stand in the XML, and [kind] for Comment (any event the loop
\* ignores) and Error (the reader's Err).  After the last event the reader
\* yields Eof.

\* BytesText::unescape: every "&name;" replaced by the character it names, for
\* the predefined names lt, gt, amp, apos and quot; an unknown name or an '&'
\* without ';' is an error.
RECURSIVE unescape(_, _)
unescape(raw, done) ==
    IF raw = <<>> THEN [kind |-> "Ok", value |-> done]
    ELSE IF Head(raw) # 38 THEN unescape(Tail(raw), Append(done, Head(raw)))
    ELSE LET ends == {i \in 2..Len(raw) : raw[i] = 59} IN
         IF ends = {} THEN HwpError("Hwpx")
         ELSE LET e == CHOOSE i \in ends : \A j \in ends : i <= j
                  name == SubSeq(raw, 2, e - 1)
                  entities == (<<108, 116>> :> 60) @@ (<<103, 116>> :> 62)
                              @@ (<<97, 109, 112>> :> 38) @@ (<<97, 112, 111, 115>> :> 39)
                              @@ (<<113, 117, 111, 116>> :> 34)
              IN IF name \in DOMAIN entities
                 THEN unescape(SubSeq(raw, e + 1, Len(raw)), Append(done, entities[name]))
                 ELSE HwpError("Hwpx")

emit_hwpx_markdown_table(rows, text) ==
    LET \* rows.iter().map(|r| r.len()).max().unwrap_or(0)
        col_count == IF rows = <<>> THEN 0
                     ELSE CHOOSE n \in {Len(rows[i]) : i \in 1..Len(rows)} :
                              \A i \in 1..Len(rows) : Len(rows[i]) <= n
        Row(row) == <<124>> \o FlattenSeq([j \in 1..col_count |->
                        <<32>> \o escape_markdown_cell(IF j <= Len(row) THEN row[j] ELSE <<>>)
                        \o <<32, 124>>]) \o <<10>>
        Rule == <<124>> \o FlattenSeq([j \in 1..col_count |-> <<32, 45, 45, 45, 32, 124>>])
                \o <<10>>
    IN
    IF rows = <<>> \/ col_count = 0 THEN text
    ELSE text \o FlattenSeq([i \in 1..Len(rows) |->
                    Row(rows[i]) \o (IF i = 1 THEN Rule ELSE <<>>)])

\* The locals of extract_section_xml before the loop.
SectionXmlLocals ==
    [in_t_tag |-> FALSE, para_has_text |-> FALSE, in_table |-> FALSE, in_tc |-> FALSE,
     table_rows |-> <<>>, current_row |-> <<>>, current_cell_text |-> <<>>,
     tc_para_has_text |-> FALSE]

\* The event the loop reads next, Eof after the last.
NextEvent ==
    IF xml_pos < Len(xml_events) THEN xml_events[xml_pos + 1] ELSE [kind |-> "Eof"]

\* Ok(Event::Start(ref e)) | Ok(Event::Empty(ref e))
OnStartOrEmpty ==
    /\ xml_result = NotCalled
    /\ NextEvent.kind \in {"Start", "Empty"}
    /\ LET name == NextEvent.name IN
       xml_st' =
         IF name = "t" THEN [xml_st EXCEPT !.in_t_tag = TRUE]
         ELSE IF name = "tbl" THEN [xml_st EXCEPT !.in_table = TRUE, !.table_rows = <<>>]
         ELSE IF name = "tc"
         THEN [xml_st EXCEPT !.in_tc = TRUE, !.current_cell_text = <<>>,
                             !.tc_para_has_text = FALSE]
         ELSE IF name = "tr" /\ xml_st.in_table THEN [xml_st EXCEPT !.current_row = <<>>]
         ELSE IF name = "p"
         THEN (IF xml_st.in_tc THEN [xml_st EXCEPT !.tc_para_has_text = FALSE]
               ELSE [xml_st EXCEPT !.para_has_text = FALSE])
         ELSE xml_st
    /\ xml_pos' = xml_pos + 1
    /\ UNCHANGED <<xml_events, xml_text, xml_result>>
    /\ UNCHANGED <<rec_vars, pt_vars, deob_vars, dec_vars, hdr_vars,
                   sec_vars, eq_vars, tbl_vars, hwp_vars, cli_vars>>

\* Ok(Event::End(ref e))
OnEnd ==
    /\ xml_result = NotCalled
    /\ NextEvent.kind = "End"
    /\ LET name == NextEvent.name IN
       IF name = "t"
       THEN xml_st' = [xml_st EXCEPT !.in_t_tag = FALSE] /\ UNCHANGED xml_text
       ELSE IF name = "p"
       THEN IF xml_st.in_tc
            THEN /\ xml_st' = IF xml_st.tc_para_has_text
                              THEN [xml_st EXCEPT !.current_cell_text = Append(@, 10)]
                              ELSE xml_st
                 /\ UNCHANGED xml_text
            ELSE IF ~xml_st.in_table
            THEN /\ xml_text' = xml_text \o (IF xml_st.para_has_text THEN <<10>>
                                             ELSE <<10, 10>>)
                 /\ UNCHANGED xml_st
            ELSE UNCHANGED <<xml_st, xml_text>>
       ELSE IF name = "tc"
       THEN /\ xml_st' = [xml_st EXCEPT
                            !.current_row =
                                Append(@, trim_end_matches(xml_st.current_cell_text, 10)),
                            !.in_tc = FALSE]
            /\ UNCHANGED xml_text
       ELSE IF name = "tr" /\ xml_st.in_table
       THEN /\ xml_st' = IF xml_st.current_row # <<>>
                         THEN [xml_st EXCEPT !.table_rows = Append(@, xml_st.current_row),
                                             !.current_row = <<>>]
                         ELSE xml_st
            /\ UNCHANGED xml_text
       ELSE IF name = "tbl"
       THEN /\ xml_text' = emit_hwpx_markdown_table(xml_st.table_rows, xml_text)
            /\ xml_st' = [xml_st EXCEPT !.table_rows = <<>>, !.in_table = FALSE]
       ELSE UNCHANGED <<xml_st, xml_text>>
    /\ xml_pos' = xml_pos + 1
    /\ UNCHANGED <<xml_events, xml_result>>
    /\ UNCHANGED <<rec_vars, pt_vars, deob_vars, dec_vars, hdr_vars,
                   sec_vars, eq_vars, tbl_vars, hwp_vars, cli_vars>>

\* Ok(Event::Text(ref e))
OnText ==
    /\ xml_result = NotCalled
    /\ NextEvent.kind = "Text"
    /\ xml_pos' = xml_pos + 1
    /\ IF ~xml_st.in_t_tag THEN UNCHANGED <<xml_st, xml_text, xml_result>>
       ELSE LET t == unescape(NextEvent.raw, <<>>) IN
            IF t.kind # "Ok"
            THEN xml_result' = HwpError("Hwpx") /\ UNCHANGED <<xml_st, xml_text>>
            ELSE IF xml_st.in_tc
            THEN /\ xml_st' = [xml_st EXCEPT
                                 !.tc_para_has_text = IF t.value # <<>> THEN TRUE ELSE @,
                                 !.current_cell_text = @ \o t.value]
                 /\ UNCHANGED <<xml_text, xml_result>>
            ELSE IF ~xml_st.in_table
            THEN /\ xml_st' = [xml_st EXCEPT
                                 !.para_has_text = IF t.value # <<>> THEN TRUE ELSE @]
                 /\ xml_text' = xml_text \o t.value
                 /\ UNCHANGED xml_result
            ELSE UNCHANGED <<xml_st, xml_text, xml_result>>
    /\ UNCHANGED xml_events
    /\ UNCHANGED <<rec_vars, pt_vars, deob_vars, dec_vars, hdr_vars,
                   sec_vars, eq_vars, tbl_vars, hwp_vars, cli_vars>>

\* Ok(Event::Eof) => break, then Ok(())
OnEof ==
    /\ xml_result = NotCalled
    /\ NextEvent.kind = "Eof"
    /\ xml_result' = [kind |-> "Ok"]
    /\ UNCHANGED <<xml_events, xml_pos, xml_st, xml_text>>
    /\ UNCHANGED <<rec_vars, pt_vars, deob_vars, dec_vars, hdr_vars,
                   sec_vars, eq_vars, tbl_vars, hwp_vars, cli_vars>>

\* Err(e) => return Err(HwpError::Hwpx(..))
OnError ==
    /\ xml_result = NotCalled
    /\ NextEvent.kind = "Error"
    /\ xml_result' = HwpError("Hwpx")
    /\ xml_pos' = xml_pos + 1
    /\ UNCHANGED <<xml_events, xml_st, xml_text>>
    /\ UNCHANGED <<rec_vars, pt_vars, deob_vars, dec_vars, hdr_vars,
                   sec_vars, eq_vars, tbl_vars, hwp_vars, cli_vars>>

\* _ => {}
OnOtherEvent ==
    /\ xml_result = NotCalled
    /\ NextEvent.kind = "Comment"
    /\ xml_pos' = xml_pos + 1
    /\ UNCHANGED <<xml_events, xml_st, xml_text, xml_result>>
    /\ UNCHANGED <<rec_vars, pt_vars, deob_vars, dec_vars, hdr_vars,
                   sec_vars, eq_vars, tbl_vars, hwp_vars, cli_vars>>

\* --- HWPX section extraction: inputs -----------------------------------------

\* The events sequences are made of: the elements the loop tells apart and one
\* it does not, an empty <t/>, the texts "x", "&lt;" and "&x;" (no entity), a
\* comment and a reader error.
XmlEvents ==
    {[kind |-> "Start", name |-> n] : n \in {"t", "p", "tbl", "tr", "tc", "run"}}
    \cup {[kind |-> "Empty", name |-> "t"]}
    \cup {[kind |-> "End", name |-> n] : n \in {"t", "p", "tbl", "tr", "tc"}}
    \cup {[kind |-> "Text", raw |-> r] : r \in {<<120>>, <<38, 108, 116, 59>>, <<38, 120, 59>>}}
    \cup {[kind |-> "Comment"], [kind |-> "Error"]}

\* Beginnings: nothing, an open paragraph after an empty run, an open cell of a
\* table with the text "x|".
XmlPrefixes ==
    { <<>>,
      << [kind |-> "Start", name |-> "p"], [kind |-> "Start", name |-> "run"],
         [kind |-> "Empty", name |-> "t"], [kind |-> "End", name |-> "run"] >>,
      << [kind |-> "Start", name |-> "tbl"], [kind |-> "Start", name |-> "tr"],
         [kind |-> "Start", name |-> "tc"], [kind |-> "Start", name |-> "t"],
         [kind |-> "Text", raw |-> <<120, 124>>], [kind |-> "End", name |-> "t"] >> }

\* The largest number of events after the beginning.
MaxEvents == 3

InitHwpx ==
    /\ \E prefix \in XmlPrefixes, events \in SeqsUpTo(XmlEvents, MaxEvents) :
          xml_events = prefix \o events
    /\ xml_pos = 0
    /\ xml_st = SectionXmlLocals
    /\ xml_text = <<>>
    /\ xml_result = NotCalled
    /\ RecIdle /\ PtIdle /\ DeobIdle /\ DecIdle /\ HdrIdle
    /\ SecIdle /\ EqIdle /\ TblIdle /\ HwpIdle /\ CliIdle

NextHwpx ==
    \/ OnStartOrEmpty
    \/ OnEnd
    \/ OnText
    \/ OnEof
    \/ OnError
    \/ OnOtherEvent

SpecHwpx == InitHwpx /\ [][NextHwpx]_vars

\* --- what is claimed of HWPX section extraction -------------------------------

\* How many <t> elements the first n events leave open: a start opens one, an
\* end closes the innermost if there is one, an empty element opens and closes
\* its own.
RECURSIVE OpenTs(_, _)
OpenTs(events, n) ==
    IF n = 0 THEN 0
    ELSE LET before == OpenTs(events, n - 1)
             e == events[n]
         IN IF e.kind = "Start" /\ e.name = "t" THEN before + 1
            ELSE IF e.kind = "End" /\ e.name = "t" /\ before > 0 THEN before - 1
            ELSE before

InsideT(events, n) == OpenTs(events, n) > 0

\* C30: only character data inside a <t> element contributes to the output:
\* a Text event read while no <t> is open, because none was opened or because
\* the last one was closed, by </t> or as an empty <t/>, changes neither the
\* text nor the text of the current cell.
C30_OnlyInsideT ==
    [][(/\ xml_pos' = xml_pos + 1
        /\ xml_events[xml_pos + 1].kind = "Text"
        /\ ~InsideT(xml_events, xml_pos))
       => /\ xml_text' = xml_text
          /\ xml_st'.current_cell_text = xml_st.current_cell_text]_vars

====
